---- MODULE Spec2Model ----
(***************************************************************************)
(* The LLM client of the AI orchestration layer (AIServiceClient) as a     *)
(* state machine: the rate-limit window, the retry loop of generate, the   *)
(* classification of provider failures, cost tracking and healthCheck.     *)
(* Callers run on one event loop: a caller's code between two suspension   *)
(* points (rate-limit wait, provider call, backoff wait) is one step.      *)
(*                                                                         *)
(* Units: time in milliseconds, text by its length in characters, money in *)
(* millionths of a dollar (so that the prices per 1000 tokens are whole).  *)
(***************************************************************************)
EXTENDS Integers, Sequences, FiniteSets, TLC

\* ---------------------------------------------------------------- bounds
\* largest configured maxRetries explored (0 .. MaxRetriesBound)
MaxRetriesBound == 2
\* number of generate/generateWithTemplate/healthCheck calls started after Init
MaxCalls == 2
\* number of clock ticks explored
MaxTicks == 2
\* the rate-limit waits of one call are counted up to this number
MaxWaits == 2

\* ------------------------------------------------------ program constants
\* client.ts:36-37, the ceilings the constructor sets
RequestsPerMinute == 60
TokensPerMinute == 150000
\* client.ts:40 and :139, the length of a window
WindowMs == 60000
\* service.ts:16, the default retryDelay
RetryDelay == 1000
\* client.ts:161, characters per estimated token
CharsPerToken == 4

\* the concurrent callers of the one client: "a" uses every entry point,
\* "b" competes with calls of generate
Callers == {"a", "b"}
TemplateCallers == {"a"}

\* the clock advances by half a window at a time
TickMs == WindowMs \div 2

\* ----------------------------------------------------------- pure helpers
Min(x, y) == IF x <= y THEN x ELSE y

RECURSIVE Pow2(_)
Pow2(n) == IF n <= 0 THEN 1 ELSE 2 * Pow2(n - 1)

\* Math.ceil(text.length / 4)
estimateTokens(length) == (length + CharsPerToken - 1) \div CharsPerToken

\* TOKEN_COSTS, in millionths of a dollar per 1000 tokens
TOKEN_COSTS ==
  [m \in {"gpt-4", "gpt-4-turbo", "gpt-3.5-turbo"} |->
     CASE m = "gpt-4" -> [input |-> 30000, output |-> 60000]
       [] m = "gpt-4-turbo" -> [input |-> 10000, output |-> 30000]
       [] m = "gpt-3.5-turbo" -> [input |-> 1000, output |-> 2000]]

\* the models a client is configured with here: one priced, one not in the table
Models == {"gpt-4-turbo", "gpt-4o"}

\* ----- text of a response, as a sequence of characters
Lower(ch) ==
  CASE ch = "A" -> "a"
    [] ch = "B" -> "b"
    [] ch = "C" -> "c"
    [] ch = "D" -> "d"
    [] ch = "E" -> "e"
    [] ch = "F" -> "f"
    [] ch = "G" -> "g"
    [] ch = "H" -> "h"
    [] ch = "I" -> "i"
    [] ch = "J" -> "j"
    [] ch = "K" -> "k"
    [] ch = "L" -> "l"
    [] ch = "M" -> "m"
    [] ch = "N" -> "n"
    [] ch = "O" -> "o"
    [] ch = "P" -> "p"
    [] ch = "Q" -> "q"
    [] ch = "R" -> "r"
    [] ch = "S" -> "s"
    [] ch = "T" -> "t"
    [] ch = "U" -> "u"
    [] ch = "V" -> "v"
    [] ch = "W" -> "w"
    [] ch = "X" -> "x"
    [] ch = "Y" -> "y"
    [] ch = "Z" -> "z"
    [] OTHER -> ch

toLowerCase(s) == [i \in 1..Len(s) |-> Lower(s[i])]

RECURSIVE trimStart(_)
trimStart(s) == IF s # <<>> /\ Head(s) = " " THEN trimStart(Tail(s)) ELSE s

RECURSIVE trimEnd(_)
trimEnd(s) ==
  IF s # <<>> /\ s[Len(s)] = " " THEN trimEnd(SubSeq(s, 1, Len(s) - 1)) ELSE s

trim(s) == trimEnd(trimStart(s))

\* String.prototype.includes on sequences of characters
includes(s, sub) ==
  \E i \in 1..(Len(s) - Len(sub) + 1) : SubSeq(s, i, i + Len(sub) - 1) = sub

\* ----- error messages, by the classifier's markers they contain
Markers ==
  {"rate limit", "timeout", "insufficient_quota", "invalid_api_key",
   "model_not_found", "server_error", "502", "503"}

\* error.message.includes(marker)
messageIncludes(message, marker) == marker \in message

\* the failures the provider produces here: a throttling, a timeout and a
\* rejected credential (a failure whose text has no marker comes with an
\* empty completion)
ProviderErrors == {{"rate limit"}, {"timeout"}, {"invalid_api_key"}}

\* 'No response content received from AI service' contains no marker
NoContentMessage == {}

\* ----- completions of the provider: content and usage (a missing usage
\* field reads as 0, client.ts:123-125)
Completions ==
  { [content |-> <<"O", "K">>, prompt_tokens |-> 100, completion_tokens |-> 50,
     total_tokens |-> 150],
    [content |-> <<"N", "o", " ">>, prompt_tokens |-> 100, completion_tokens |-> 50,
     total_tokens |-> 150],
    [content |-> <<>>, prompt_tokens |-> 10, completion_tokens |-> 0,
     total_tokens |-> 10] }

\* ----- requests, by the lengths of prompt and system message
\* generate: a short prompt, and one whose estimate alone is above the token
\* ceiling
GenerateRequests ==
  { [prompt |-> 5, systemMessage |-> 0],
    [prompt |-> 600001, systemMessage |-> 0] }

\* generateWithTemplate(ANALYZE_DESCRIPTION, {description}): the template body
\* (746 characters, 15 of them the placeholder) and its system message (368)
TemplateRequests == { [prompt |-> 746 - 15 + 40, systemMessage |-> 368] }

\* healthCheck: 'Hello, please respond with "OK"'
HealthRequest == [prompt |-> 31, systemMessage |-> 0]

\* ---------------------------------------------------------------- state
VARIABLES
  config,         \* AIServiceConfig: maxRetries, model, retryDelay
  now,            \* the clock (Date.now())
  rateLimitInfo,  \* RateLimitInfo
  costTracking,   \* CostTrackingInfo (without lastUpdated)
  calls,          \* per caller: the call in progress or last settled
  windowCalls,    \* history: provider calls issued since the last window reset
  started,        \* history: calls started since Init
  erased,         \* history: the requestCount the last step erased, if it was
                  \* resetCostTracking, and -1 if it was any other step
  sampling,       \* one call followed from its entry point to the provider's
                  \* chat.completions.create, with the parameters it carries
  rendering,      \* one run of renderPrompt: template body, variables, output
  analysis,       \* one analyzeDescription or recommendTechStack call of the
                  \* DescriptionAnalysisService
  scoring,        \* one run of scoreTechStackRecommendation
  questions,      \* one run of generateClarificationQuestions
  aiService,      \* the statics of AIService: instance, config, and the clients
                  \* constructed so far
  authRequest,    \* one request through authMiddleware or POST /api/auth/refresh
  project,        \* one Project document: documentation.history
  delays,         \* history: the arguments of the backoff delays of one call
  classification  \* one run of handleError

\* the state of the LLM client
clientVars ==
  <<config, now, rateLimitInfo, costTracking, calls, windowCalls, started, erased>>

\* the runs of the template renderer and of the analysis service that are
\* followed one at a time, each in a specification of its own
serviceVars == <<sampling, rendering, analysis, scoring, questions>>

\* the other components of the backend, each followed in a specification of
\* its own
platformVars == <<aiService, authRequest, project, delays, classification>>

vars == <<clientVars, serviceVars, platformVars>>

\* a component that is not exercised in the behaviours of a specification
NotInUse == [pc |-> "unused"]

\* the components of platformVars other than `used` are not exercised
PlatformIdleBut(used) ==
  /\ used # "aiService" => aiService = NotInUse
  /\ used # "authRequest" => authRequest = NotInUse
  /\ used # "project" => project = NotInUse
  /\ used # "delays" => delays = NotInUse
  /\ used # "classification" => classification = NotInUse

PlatformIdle == PlatformIdleBut("none")

\* the value of lastError before any failure (null)
NoError ==
  [name |-> "null", message |-> {}, code |-> "", retryable |-> FALSE,
   rateLimited |-> FALSE, costExceeded |-> FALSE]

NoResponse ==
  [content |-> <<>>,
   usage |-> [promptTokens |-> 0, completionTokens |-> 0, totalTokens |-> 0]]

IdleCall ==
  [pc |-> "idle", kind |-> "generate", request |-> HealthRequest, attempt |-> 0,
   wakeAt |-> 0, lastError |-> NoError, response |-> NoResponse,
   health |-> "none",
   \* history of this call
   sent |-> 0, waits |-> 0, backoffs |-> 0]

\* the generate calls of the current window that completed before the
\* behaviours explored here begin: none (a fresh client), or all but one of
\* the request ceiling
PriorCalls == {0, RequestsPerMinute - 1}

\* The client as constructed (client.ts:28-49), then `prior` generate calls
\* with the short prompt, each of which failed at its first provider call
\* with a non-retryable error (no provider call at all when maxRetries = 0).
Init ==
  /\ config \in [maxRetries : 0..MaxRetriesBound, model : Models,
                 retryDelay : {RetryDelay}]
  /\ now = 0
  /\ \E prior \in PriorCalls :
       /\ rateLimitInfo =
            [requestsPerMinute |-> RequestsPerMinute,
             tokensPerMinute |-> TokensPerMinute,
             currentRequests |-> prior,
             currentTokens |-> prior * estimateTokens(5),
             resetTime |-> now + WindowMs]
       /\ windowCalls = IF config.maxRetries >= 1 THEN prior ELSE 0
  /\ costTracking = [totalCost |-> 0, requestCount |-> 0, tokenCount |-> 0]
  /\ calls = [c \in Callers |-> IdleCall]
  /\ started = 0
  /\ erased = -1
  /\ sampling = NotInUse
  /\ rendering = NotInUse
  /\ analysis = NotInUse
  /\ scoring = NotInUse
  /\ questions = NotInUse
  /\ PlatformIdle

\* ------------------------------------------------------------- the client
\* handleError (client.ts:178-211): the classified error of a failure whose
\* message is `message`, raised at attempt `attempt`
handleError(message, attempt) ==
  LET aiError ==
        [name |-> "AIServiceError", message |-> message, code |-> "UNKNOWN_ERROR",
         retryable |-> FALSE, rateLimited |-> FALSE, costExceeded |-> FALSE]
  IN IF messageIncludes(message, "rate limit")
       THEN [aiError EXCEPT !.code = "RATE_LIMITED", !.retryable = TRUE,
                            !.rateLimited = TRUE]
     ELSE IF messageIncludes(message, "timeout")
       THEN [aiError EXCEPT !.code = "TIMEOUT",
                            !.retryable = (attempt < config.maxRetries)]
     ELSE IF messageIncludes(message, "insufficient_quota")
       THEN [aiError EXCEPT !.code = "QUOTA_EXCEEDED", !.retryable = FALSE,
                            !.costExceeded = TRUE]
     ELSE IF messageIncludes(message, "invalid_api_key")
       THEN [aiError EXCEPT !.code = "INVALID_API_KEY", !.retryable = FALSE]
     ELSE IF messageIncludes(message, "model_not_found")
       THEN [aiError EXCEPT !.code = "MODEL_NOT_FOUND", !.retryable = FALSE]
     ELSE IF \/ messageIncludes(message, "server_error")
             \/ messageIncludes(message, "502")
             \/ messageIncludes(message, "503")
       THEN [aiError EXCEPT !.code = "SERVER_ERROR", !.retryable = TRUE]
     ELSE aiError

\* updateCostTracking (client.ts:164-176): the cost counters after a response
updateCostTracking(response) ==
  IF config.model \notin DOMAIN TOKEN_COSTS
    THEN costTracking
    ELSE LET modelCosts == TOKEN_COSTS[config.model]
             inputCost == (response.usage.promptTokens * modelCosts.input) \div 1000
             outputCost == (response.usage.completionTokens * modelCosts.output) \div 1000
         IN [totalCost |-> costTracking.totalCost + inputCost + outputCost,
             requestCount |-> costTracking.requestCount + 1,
             tokenCount |-> costTracking.tokenCount + response.usage.totalTokens]

\* the AIResponse makeRequest builds from a completion (client.ts:120-129)
responseOf(completion) ==
  [content |-> completion.content,
   usage |-> [promptTokens |-> completion.prompt_tokens,
              completionTokens |-> completion.completion_tokens,
              totalTokens |-> completion.total_tokens]]

\* the window after the reset of client.ts:136-140
resetWindow(rl) ==
  IF now >= rl.resetTime
    THEN [rl EXCEPT !.currentRequests = 0, !.currentTokens = 0,
                    !.resetTime = now + WindowMs]
    ELSE rl

\* the test of client.ts:145-146 with > in place of >= on the request count
exceedsLimitsOffByOne(rl, estimatedTokens) ==
  \/ rl.currentRequests > rl.requestsPerMinute
  \/ rl.currentTokens + estimatedTokens > rl.tokensPerMinute

\* the test of client.ts:145-146
exceedsLimits(rl, estimatedTokens) ==
  \/ rl.currentRequests >= rl.requestsPerMinute
  \/ rl.currentTokens + estimatedTokens > rl.tokensPerMinute

\* enforceRateLimit (client.ts:132-157), from its entry to its return or to
\* its suspension in delay(waitTime): the window and the call afterwards
enforceRateLimit(call) ==
  LET rl == resetWindow(rateLimitInfo)
      estimatedTokens ==
        estimateTokens(call.request.prompt + call.request.systemMessage)
      waitTime == rl.resetTime - now
  IN IF exceedsLimits(rl, estimatedTokens) /\ waitTime > 0
       THEN [rateLimitInfo |-> rl,
             call |-> [call EXCEPT !.pc = "rateLimitWait",
                                   !.wakeAt = now + waitTime,
                                   !.waits = Min(@ + 1, MaxWaits)]]
       ELSE [rateLimitInfo |->
               [rl EXCEPT !.currentRequests = @ + 1,
                          !.currentTokens = @ + estimatedTokens],
             call |-> [call EXCEPT !.pc = "passed", !.wakeAt = 0]]

\* healthCheck comparing the content as it is, without toLowerCase
healthCheckResultCaseSensitive(call) ==
  IF call.pc = "returned"
    THEN includes(trim(call.response.content), <<"o", "k">>)
    ELSE FALSE

\* healthCheck's result from its generate call (client.ts:236-247)
healthCheckResult(call) ==
  IF call.pc = "returned"
    THEN includes(toLowerCase(trim(call.response.content)), <<"o", "k">>)
    ELSE FALSE

\* a generate call settles; healthCheck turns the outcome into its boolean
settle(call) ==
  [call EXCEPT !.health =
     IF call.kind = "health"
       THEN (IF healthCheckResult(call) THEN "true" ELSE "false")
       ELSE "none"]

InProgress(call) == call.pc \in {"rateLimitWait", "calling", "backoff"}

\* the loop with the condition attempt < maxRetries
loopHeadOneAttemptShort(call, attempt) ==
  IF attempt < config.maxRetries
    THEN [call EXCEPT !.pc = "calling", !.attempt = attempt, !.wakeAt = 0,
                      !.sent = @ + 1]
    ELSE settle([call EXCEPT !.pc = "thrown", !.attempt = attempt, !.wakeAt = 0])

\* the head of the retry loop at `attempt` (client.ts:72-74, 88): the provider
\* call is issued, or the loop is left and lastError is thrown
loopHead(call, attempt) ==
  IF attempt <= config.maxRetries
    THEN [call EXCEPT !.pc = "calling", !.attempt = attempt, !.wakeAt = 0,
                      !.sent = @ + 1]
    ELSE settle([call EXCEPT !.pc = "thrown", !.attempt = attempt, !.wakeAt = 0])

\* generate from a run of enforceRateLimit on: when the limiter lets the call
\* pass, generate resumes in the same turn of the event loop and enters its
\* loop (client.ts:68-74)
throughRateLimit(call) ==
  LET r == enforceRateLimit(call)
  IN IF r.call.pc = "passed"
       THEN [r EXCEPT !.call = loopHead(r.call, 1)]
       ELSE r

\* the catch block throwing only when the error is non-retryable and the
\* attempts are used up (&& in place of ||)
catchRetriesAnyError(call, message) ==
  LET lastError == handleError(message, call.attempt)
      failed == [call EXCEPT !.lastError = lastError]
  IN IF ~lastError.retryable /\ call.attempt = config.maxRetries
       THEN settle([failed EXCEPT !.pc = "thrown"])
       ELSE [failed EXCEPT !.pc = "backoff",
                           !.wakeAt = now + config.retryDelay * Pow2(call.attempt - 1),
                           !.backoffs = @ + 1]

\* the catch block with a delay that grows by retryDelay per attempt
catchLinearBackoff(call, message) ==
  LET lastError == handleError(message, call.attempt)
      failed == [call EXCEPT !.lastError = lastError]
  IN IF ~lastError.retryable \/ call.attempt = config.maxRetries
       THEN settle([failed EXCEPT !.pc = "thrown"])
       ELSE [failed EXCEPT !.pc = "backoff",
                           !.wakeAt = now + config.retryDelay * call.attempt,
                           !.backoffs = @ + 1]

\* the catch block of generate (client.ts:77-85) for a failure with `message`
catch(call, message) ==
  LET lastError == handleError(message, call.attempt)
      failed == [call EXCEPT !.lastError = lastError]
  IN IF ~lastError.retryable \/ call.attempt = config.maxRetries
       THEN settle([failed EXCEPT !.pc = "thrown"])
       ELSE [failed EXCEPT !.pc = "backoff",
                           !.wakeAt = now + config.retryDelay * Pow2(call.attempt - 1),
                           !.backoffs = @ + 1]

\* the history of provider calls in the window, after a step that takes
\* caller c's call from `before` to `after` and runs enforceRateLimit or not
countCalls(before, after, limiterRuns) ==
  (IF limiterRuns /\ now >= rateLimitInfo.resetTime THEN 0 ELSE windowCalls)
  + (after.sent - before.sent)

\* ---------------------------------------------------------------- actions
\* A caller calls generate, generateWithTemplate or healthCheck: the call runs
\* up to its first suspension, in the rate limiter or in the provider call.
Start(c, kind, request) ==
  /\ started < MaxCalls
  /\ ~InProgress(calls[c])
  /\ LET fresh == [IdleCall EXCEPT !.kind = kind, !.request = request]
         r == throughRateLimit(fresh)
     IN /\ rateLimitInfo' = r.rateLimitInfo
        /\ calls' = [calls EXCEPT ![c] = r.call]
        /\ windowCalls' = countCalls(fresh, r.call, TRUE)
  /\ started' = started + 1
  /\ erased' = -1
  /\ UNCHANGED <<platformVars, serviceVars, config, now, costTracking>>

generate(c) == \E request \in GenerateRequests : Start(c, "generate", request)

generateWithTemplate(c) ==
  \E request \in TemplateRequests : Start(c, "template", request)

healthCheck(c) == Start(c, "health", HealthRequest)

\* delay(waitTime) is over: enforceRateLimit runs again (client.ts:150-151)
RateLimitWaitOver(c) ==
  /\ calls[c].pc = "rateLimitWait"
  /\ now >= calls[c].wakeAt
  /\ LET r == throughRateLimit(calls[c])
     IN /\ rateLimitInfo' = r.rateLimitInfo
        /\ calls' = [calls EXCEPT ![c] = r.call]
        /\ windowCalls' = countCalls(calls[c], r.call, TRUE)
  /\ erased' = -1
  /\ UNCHANGED <<platformVars, serviceVars, config, now, costTracking, started>>

\* the provider answers with a completion (client.ts:115-129, 75-76)
ProviderCompletes(c) ==
  /\ calls[c].pc = "calling"
  /\ \E completion \in Completions :
       IF completion.content = <<>>
         THEN /\ calls' = [calls EXCEPT ![c] = catch(calls[c], NoContentMessage)]
              /\ UNCHANGED costTracking
         ELSE /\ costTracking' = updateCostTracking(responseOf(completion))
              /\ calls' = [calls EXCEPT ![c] =
                             settle([calls[c] EXCEPT
                                       !.pc = "returned",
                                       !.response = responseOf(completion)])]
  /\ erased' = -1
  /\ UNCHANGED <<platformVars, serviceVars, config, now, rateLimitInfo, windowCalls, started>>

\* the provider call fails, and the cost of the attempt is recorded as if it
\* had succeeded (updateCostTracking in a finally block)
ProviderFailsCountsCost(c) ==
  /\ calls[c].pc = "calling"
  /\ \E message \in ProviderErrors :
       calls' = [calls EXCEPT ![c] = catch(calls[c], message)]
  /\ costTracking' = updateCostTracking(NoResponse)
  /\ erased' = -1
  /\ UNCHANGED <<platformVars, serviceVars, config, now, rateLimitInfo, windowCalls, started>>

\* the provider call fails
ProviderFails(c) ==
  /\ calls[c].pc = "calling"
  /\ \E message \in ProviderErrors :
       calls' = [calls EXCEPT ![c] = catch(calls[c], message)]
  /\ erased' = -1
  /\ UNCHANGED <<platformVars, serviceVars, config, now, rateLimitInfo, costTracking, windowCalls, started>>

\* the backoff delay is over: the next iteration of the loop (client.ts:84, 72)
BackoffOver(c) ==
  /\ calls[c].pc = "backoff"
  /\ now >= calls[c].wakeAt
  /\ LET next == loopHead(calls[c], calls[c].attempt + 1)
     IN /\ calls' = [calls EXCEPT ![c] = next]
        /\ windowCalls' = countCalls(calls[c], next, FALSE)
  /\ erased' = -1
  /\ UNCHANGED <<platformVars, serviceVars, config, now, rateLimitInfo, costTracking, started>>

\* a reset that clears the window counters with the cost counters
resetCostTrackingAndWindow ==
  /\ costTracking' = [totalCost |-> 0, requestCount |-> 0, tokenCount |-> 0]
  /\ rateLimitInfo' = [rateLimitInfo EXCEPT !.currentRequests = 0,
                                            !.currentTokens = 0]
  /\ erased' = costTracking.requestCount
  /\ UNCHANGED <<platformVars, serviceVars, config, now, calls, windowCalls, started>>

\* resetCostTracking (client.ts:226-233)
resetCostTracking ==
  /\ costTracking' = [totalCost |-> 0, requestCount |-> 0, tokenCount |-> 0]
  /\ erased' = costTracking.requestCount
  /\ UNCHANGED <<platformVars, serviceVars, config, now, rateLimitInfo, calls, windowCalls, started>>

\* time passes
Tick ==
  /\ now + TickMs <= MaxTicks * TickMs
  /\ now' = now + TickMs
  /\ erased' = -1
  /\ UNCHANGED <<platformVars, serviceVars, config, rateLimitInfo, costTracking, calls, windowCalls, started>>

Next ==
  \/ \E c \in Callers : generate(c)
  \/ \E c \in TemplateCallers : generateWithTemplate(c)
  \/ \E c \in TemplateCallers : healthCheck(c)
  \/ \E c \in Callers : RateLimitWaitOver(c)
  \/ \E c \in Callers : ProviderCompletes(c)
  \/ \E c \in Callers : ProviderFails(c)
  \/ \E c \in Callers : BackoffOver(c)
  \/ resetCostTracking
  \/ Tick

Spec == Init /\ [][Next]_vars

\* ------------------------------------------------------------ properties
Settled(call) == call.pc \in {"returned", "thrown"}

\* the kinds the taxonomy retries
RetryableKinds == {"RATE_LIMITED", "TIMEOUT", "SERVER_ERROR"}

ErrorCodes ==
  {"RATE_LIMITED", "TIMEOUT", "QUOTA_EXCEEDED", "INVALID_API_KEY",
   "MODEL_NOT_FOUND", "SERVER_ERROR", "UNKNOWN_ERROR"}

\* the step is the start of a new call by caller c
NewCall(c) == started' = started + 1 /\ calls'[c].sent <= 1 /\ calls'[c].backoffs = 0

\* the step is the failure of caller c's provider call
FailureStep(c) == calls[c].pc = "calling" /\ calls'[c].pc \in {"backoff", "thrown"}

\* C1, in states: with maxRetries >= 1 a generate call has issued at most
\* maxRetries provider calls, each but the last followed by one backoff wait
\* (so each but the last failed retryably); it returns or raises only after a
\* provider call; it raises before the maxRetries-th call only on a
\* non-retryable error, and after exactly maxRetries calls when the last
\* failure is of a retryable kind too.
C1_LoopInvariant ==
  \A c \in Callers :
    LET call == calls[c]
    IN config.maxRetries >= 1 =>
         /\ call.sent <= config.maxRetries
         /\ call.pc = "calling" =>
              call.sent = call.attempt /\ call.backoffs = call.sent - 1
         /\ call.pc = "backoff" =>
              /\ call.sent = call.attempt /\ call.backoffs = call.sent
              /\ call.sent < config.maxRetries
         /\ Settled(call) => call.sent >= 1 /\ call.backoffs = call.sent - 1
         /\ call.pc = "thrown" =>
              /\ call.lastError.code \in RetryableKinds =>
                   call.sent = config.maxRetries
              /\ call.sent < config.maxRetries => ~call.lastError.retryable

\* C1, in steps: a rate-limit failure of the first provider call, with an
\* attempt left, suspends the call in its backoff; the end of a backoff issues
\* exactly one more provider call; a completion with content returns without
\* any further provider call; a settled call issues nothing more.
C1_LoopStep ==
  \A c \in Callers :
    config.maxRetries >= 1 =>
      /\ ( /\ FailureStep(c)
           /\ calls[c].attempt = 1
           /\ config.maxRetries >= 2
           /\ calls'[c].lastError.code = "RATE_LIMITED" )
         => calls'[c].pc = "backoff"
      /\ (calls[c].pc = "backoff" /\ calls'[c] # calls[c])
         => /\ calls'[c].pc = "calling"
            /\ calls'[c].sent = calls[c].sent + 1
            /\ calls'[c].attempt = calls[c].attempt + 1
      /\ (calls[c].pc = "calling" /\ calls'[c] # calls[c])
         => calls'[c].sent = calls[c].sent /\ calls'[c].pc # "calling"
      /\ (Settled(calls[c]) /\ calls'[c] # calls[c]) => NewCall(c)

\* C1: for maxRetries >= 1 generate issues its provider calls one after
\* another until the first success, the first non-retryable failure or the
\* maxRetries-th attempt: a rate-limit failure followed by a success returns
\* after exactly 2 provider calls, and retryable failures of every attempt
\* raise after exactly maxRetries provider calls.
C1_RetryUntilSettled == []C1_LoopInvariant /\ [][C1_LoopStep]_vars

\* a call that returned at its second provider call after a rate-limit failure
\* of the first, beside a call that raised a retryable error after maxRetries
C1_Witness ==
  /\ config.maxRetries = 2
  /\ calls["a"].pc = "returned"
  /\ calls["a"].sent = 2
  /\ calls["a"].lastError.code = "RATE_LIMITED"
  /\ calls["b"].pc = "thrown"
  /\ calls["b"].sent = config.maxRetries
  /\ calls["b"].lastError.retryable

\* C2, in states: a wait or a further attempt happens only after a retryable
\* error, and a call that raises at its first attempt has issued exactly one
\* provider call and waited for no backoff.
C2_NoRetryInvariant ==
  \A c \in Callers :
    LET call == calls[c]
    IN /\ call.pc = "backoff" => call.lastError.retryable
       /\ (call.pc = "calling" /\ call.attempt > 1) => call.lastError.retryable
       /\ (call.pc = "thrown" /\ config.maxRetries >= 1 /\ call.attempt = 1)
          => call.sent = 1 /\ call.backoffs = 0

\* C2, in steps: a failure classified non-retryable makes generate raise the
\* classified error in that very step, with no wait and no provider call
\* added, and nothing follows the raise.
C2_NoRetryStep ==
  \A c \in Callers :
    /\ (FailureStep(c) /\ ~calls'[c].lastError.retryable)
       => /\ calls'[c].pc = "thrown"
          /\ calls'[c].lastError.name = "AIServiceError"
          /\ calls'[c].lastError.code \in ErrorCodes
          /\ calls'[c].sent = calls[c].sent
          /\ calls'[c].backoffs = calls[c].backoffs
    /\ (calls[c].pc = "thrown" /\ calls'[c] # calls[c]) => NewCall(c)

\* C2: a failure classified non-retryable is raised at once, after exactly one
\* provider call when it is the first, with no backoff wait and no further
\* attempt, whatever maxRetries >= 1 is.
C2_NonRetryableRaisedAtOnce == []C2_NoRetryInvariant /\ [][C2_NoRetryStep]_vars

\* a rejected credential raised after one provider call, two retries unused
C2_Witness ==
  \E c \in Callers :
    /\ config.maxRetries = 2
    /\ calls[c].pc = "thrown"
    /\ calls[c].lastError.code = "INVALID_API_KEY"
    /\ ~calls[c].lastError.retryable
    /\ calls[c].sent = 1
    /\ calls[c].backoffs = 0

\* C3: with concurrent generate calls, in every reachable state the window
\* counters are within the ceilings (at most requestsPerMinute calls passed
\* the rate limiter since the last reset of the window).
C3_WithinCeilings ==
  /\ rateLimitInfo.currentRequests <= rateLimitInfo.requestsPerMinute
  /\ rateLimitInfo.currentTokens <= rateLimitInfo.tokensPerMinute

\* the window is full, one caller's provider call is in flight and the other
\* caller is suspended in the rate limiter
C3_Witness ==
  /\ rateLimitInfo.currentRequests = rateLimitInfo.requestsPerMinute
  /\ calls["a"].pc = "calling"
  /\ calls["b"].pc = "rateLimitWait"

\* C4: the provider calls issued between two consecutive resets of the
\* window, retries included, never exceed requestsPerMinute.
C4_ProviderCallsWithinBudget == windowCalls <= rateLimitInfo.requestsPerMinute

\* C5: a call that found a ceiling reached passes the rate limiter at the
\* reset of the window; when no other caller uses the client, one wait is
\* enough for a request of any size.
C5_SingleWaitSuffices ==
  \A c \in Callers :
    (\A d \in Callers \ {c} : calls[d].pc = "idle") => calls[c].waits <= 1

\* C6: for every maxRetries (0 included) what generate raises is a classified
\* error: an AIServiceError with a code of the taxonomy and a retryable flag.
C6_RaisesClassifiedError ==
  \A c \in Callers :
    calls[c].pc = "thrown" =>
      /\ calls[c].lastError.name = "AIServiceError"
      /\ calls[c].lastError.code \in ErrorCodes
      /\ calls[c].lastError.retryable \in BOOLEAN

\* the step is the success of caller c's generate call
SuccessStep(c) == calls[c].pc = "calling" /\ calls'[c].pc = "returned"

\* the price of a response: promptTokens/1000 * inputPrice
\* + completionTokens/1000 * outputPrice for a model of the price table, and
\* nothing for any other model
PriceOf(usage) ==
  CASE config.model = "gpt-4" ->
         usage.promptTokens * 30 + usage.completionTokens * 60
    [] config.model = "gpt-4-turbo" ->
         usage.promptTokens * 10 + usage.completionTokens * 30
    [] config.model = "gpt-3.5-turbo" ->
         usage.promptTokens * 1 + usage.completionTokens * 2
    [] OTHER -> 0

\* C7: every successful generate call, whatever the configured model, adds 1
\* to requestCount, the response's total tokens to tokenCount and the price
\* of the response (zero for a model without a price) to totalCost.
C7_SuccessIsCounted ==
  [][\A c \in Callers :
       SuccessStep(c) =>
         /\ costTracking'.requestCount = costTracking.requestCount + 1
         /\ costTracking'.tokenCount =
              costTracking.tokenCount + calls'[c].response.usage.totalTokens
         /\ costTracking'.totalCost =
              costTracking.totalCost + PriceOf(calls'[c].response.usage)]_vars

\* the step is a call of resetCostTracking
ResetStep == erased' >= 0

\* C8, in steps: no counter of the cost tracking decreases except in
\* resetCostTracking; the counters change only when a generate call returns
\* or in resetCostTracking, so every step of a call that fails, the raise
\* included, leaves them as they were.
C8_CostStep ==
  /\ ~ResetStep =>
       /\ costTracking'.totalCost >= costTracking.totalCost
       /\ costTracking'.requestCount >= costTracking.requestCount
       /\ costTracking'.tokenCount >= costTracking.tokenCount
  /\ costTracking' # costTracking =>
       ResetStep \/ \E c \in Callers : SuccessStep(c)
  /\ \A c \in Callers :
       (calls'[c].pc = "thrown" /\ calls[c].pc # "thrown") =>
         costTracking' = costTracking

\* C8: across generate, generateWithTemplate and healthCheck calls, successful
\* or failed, totalCost, requestCount and tokenCount never decrease, a call
\* that fails leaves them unchanged, and only resetCostTracking zeroes them.
C8_CostNeverDecreases == [][C8_CostStep]_vars

\* a healthCheck was counted and the competing generate call then raised after
\* its retries: the counters are still those of the one success
C8_Witness ==
  /\ calls["a"].kind = "health"
  /\ calls["a"].pc = "returned"
  /\ calls["b"].pc = "thrown"
  /\ calls["b"].sent = 2
  /\ costTracking.requestCount = 1
  /\ costTracking.tokenCount = 150
  /\ costTracking.totalCost = 100 * 10 + 50 * 30

\* C9: resetCostTracking sets totalCost, requestCount and tokenCount to zero
\* and leaves the window state (both counters, resetTime, both ceilings) as it
\* was, also while generate calls are waiting or in flight.
C9_ResetTouchesCostOnly ==
  [][ResetStep =>
       /\ costTracking' = [totalCost |-> 0, requestCount |-> 0, tokenCount |-> 0]
       /\ rateLimitInfo' = rateLimitInfo
       /\ calls' = calls]_vars

\* a reset erased a counted request while the window was full, one call
\* suspended in the rate limiter
C9_Witness ==
  /\ erased >= 1
  /\ costTracking.requestCount = 0
  /\ rateLimitInfo.currentRequests = rateLimitInfo.requestsPerMinute
  /\ rateLimitInfo.currentTokens > 0
  /\ \E c \in Callers : calls[c].pc = "rateLimitWait"

\* the content holds the letters o and k in a row, in either case
ContainsOk(content) ==
  \E i \in 1..(Len(content) - 1) :
    content[i] \in {"o", "O"} /\ content[i + 1] \in {"k", "K"}

\* C10: healthCheck ends with a boolean whatever its generate call does: true
\* exactly when generate returned a response whose text contains 'ok' in
\* either case, false when generate raised, retries exhausted or not.
C10_HealthCheckNeverThrows ==
  \A c \in Callers :
    (calls[c].kind = "health" /\ Settled(calls[c])) =>
      /\ calls[c].health \in {"true", "false"}
      /\ calls[c].health = "true" <=>
           (calls[c].pc = "returned" /\ ContainsOk(calls[c].response.content))
      /\ calls[c].pc = "thrown" => calls[c].health = "false"

\* a healthCheck whose generate call raised after its retries were exhausted
C10_Witness ==
  \E c \in Callers :
    /\ calls[c].kind = "health"
    /\ calls[c].pc = "thrown"
    /\ config.maxRetries = 2
    /\ calls[c].sent = 2
    /\ calls[c].lastError.code = "RATE_LIMITED"
    /\ calls[c].health = "false"

\* ======================================================================
\* Sampling parameters, from the entry point to chat.completions.create
\* ======================================================================
\* an optional number the caller did not supply (maxTokens?: number)
undefined == -1

\* JavaScript's a || b on optional numbers: b when a is undefined or 0
orElse(a, b) == IF a = undefined \/ a = 0 THEN b ELSE a

GenerationTask ==
  {"analyze_description", "recommend_tech_stack", "generate_code",
   "generate_tests", "fix_issues", "generate_documentation"}

\* PROMPT_TEMPLATES: the defaults of each template (temperature in tenths)
PROMPT_TEMPLATES ==
  [task \in GenerationTask |->
     CASE task = "analyze_description" -> [maxTokens |-> 2000, temperature |-> 3]
       [] task = "recommend_tech_stack" -> [maxTokens |-> 1500, temperature |-> 4]
       [] task = "generate_code" -> [maxTokens |-> 3000, temperature |-> 2]
       [] task = "generate_tests" -> [maxTokens |-> 2500, temperature |-> 1]
       [] task = "fix_issues" -> [maxTokens |-> 2000, temperature |-> 1]
       [] task = "generate_documentation" -> [maxTokens |-> 3000, temperature |-> 3]]

getPromptTemplate(task) == PROMPT_TEMPLATES[task]

\* what a caller passes for maxTokens and temperature (tenths): nothing, zero,
\* or a positive value that is no default of a template or of the client
SamplingOptions ==
  [maxTokens : {undefined, 0, 1000}, temperature : {undefined, 0, 7}]

\* the defaults the client is configured with: those of service.ts:12-13, and
\* values taken from the environment
ConfiguredSampling ==
  { [maxTokens |-> 2000, temperature |-> 3],
    [maxTokens |-> 4096, temperature |-> 9] }

\* the request generateWithTemplate hands to generate (client.ts:59-64)
templateRequest(task, options) ==
  LET template == getPromptTemplate(task)
  IN [maxTokens |-> orElse(options.maxTokens, template.maxTokens),
      temperature |-> orElse(options.temperature, template.temperature)]

\* the parameters makeRequest passes to the provider (client.ts:106-113)
createParams(request) ==
  [max_tokens |-> orElse(request.maxTokens, config.maxTokens),
   temperature |-> orElse(request.temperature, config.temperature)]

\* the state of a client on which no call was made yet, but for its config
\* (client.ts:32-48)
ClientFresh ==
  /\ now = 0
  /\ rateLimitInfo =
       [requestsPerMinute |-> RequestsPerMinute, tokensPerMinute |-> TokensPerMinute,
        currentRequests |-> 0, currentTokens |-> 0, resetTime |-> now + WindowMs]
  /\ costTracking = [totalCost |-> 0, requestCount |-> 0, tokenCount |-> 0]
  /\ calls = [c \in Callers |-> IdleCall]
  /\ windowCalls = 0
  /\ started = 0
  /\ erased = -1

\* the LLM client as constructed with the defaults of AIService.initialize
ClientAsConstructed ==
  /\ config = [maxRetries |-> 3, model |-> "gpt-4-turbo", retryDelay |-> RetryDelay]
  /\ ClientFresh

\* a client as constructed, with its configured sampling defaults
SamplingInit ==
  /\ \E defaults \in ConfiguredSampling :
       config = [maxRetries |-> 3, model |-> "gpt-4-turbo",
                 retryDelay |-> RetryDelay, maxTokens |-> defaults.maxTokens,
                 temperature |-> defaults.temperature]
  /\ ClientFresh
  /\ PlatformIdle
  /\ sampling = [pc |-> "idle"]
  /\ rendering = NotInUse
  /\ analysis = NotInUse
  /\ scoring = NotInUse
  /\ questions = NotInUse

\* the call passes the rate limiter of the fresh client (client.ts:68) and
\* is about to issue its first provider call
SamplingEnter(entry, task, supplied, request, lengths) ==
  /\ sampling.pc = "idle"
  /\ LET r == enforceRateLimit([IdleCall EXCEPT !.request = lengths])
     IN /\ r.call.pc = "passed"
        /\ rateLimitInfo' = r.rateLimitInfo
  /\ sampling' = [pc |-> "makeRequest", entry |-> entry, task |-> task,
                  supplied |-> supplied, request |-> request]
  /\ UNCHANGED <<config, now, costTracking, calls, windowCalls, started, erased,
                 rendering, analysis, scoring, questions, platformVars>>

\* generateWithTemplate(task, variables, options) up to the provider call
SamplingGenerateWithTemplate ==
  \E task \in GenerationTask, options \in SamplingOptions,
     lengths \in TemplateRequests :
    SamplingEnter("generateWithTemplate", task, options,
                  templateRequest(task, options), lengths)

\* generate(request) up to the provider call
SamplingGenerate ==
  \E request \in SamplingOptions, lengths \in GenerateRequests :
    SamplingEnter("generate", "none", request, request, lengths)

\* makeRequest calls chat.completions.create
SamplingMakeRequest ==
  /\ sampling.pc = "makeRequest"
  /\ sampling' =
       [pc |-> "sent", entry |-> sampling.entry, task |-> sampling.task,
        supplied |-> sampling.supplied, request |-> sampling.request,
        create |-> createParams(sampling.request)]
  /\ UNCHANGED <<platformVars, clientVars, rendering, analysis, scoring, questions>>

SamplingNext ==
  \/ SamplingGenerateWithTemplate
  \/ SamplingGenerate
  \/ SamplingMakeRequest

SamplingSpec == SamplingInit /\ [][SamplingNext]_vars

\* C11: every maxTokens and temperature the caller supplies, 0 included, is
\* the value the provider call carries; a call through generateWithTemplate
\* that supplies none carries the template's default.
C11_SuppliedParametersWin ==
  sampling.pc = "sent" =>
    /\ sampling.supplied.maxTokens # undefined =>
         sampling.create.max_tokens = sampling.supplied.maxTokens
    /\ sampling.supplied.temperature # undefined =>
         sampling.create.temperature = sampling.supplied.temperature
    /\ ( /\ sampling.entry = "generateWithTemplate"
         /\ sampling.supplied.maxTokens = undefined )
       => sampling.create.max_tokens = getPromptTemplate(sampling.task).maxTokens
    /\ ( /\ sampling.entry = "generateWithTemplate"
         /\ sampling.supplied.temperature = undefined )
       => sampling.create.temperature = getPromptTemplate(sampling.task).temperature

\* ======================================================================
\* renderPrompt
\* ======================================================================
\* Text is a sequence of tokens: "t" is a stretch of ordinary text, "{{a}}"
\* and "{{b}}" are placeholders, "$" and "&" are those characters.

\* longest template body explored, in tokens
MaxBodyLen == 3

\* the sequences over `alphabet` of length at most n
RECURSIVE SeqsUpTo(_, _)
SeqsUpTo(alphabet, n) ==
  IF n = 0
    THEN {<<>>}
    ELSE LET shorter == SeqsUpTo(alphabet, n - 1)
         IN shorter \cup {Append(q, x) : q \in shorter, x \in alphabet}

\* userPromptTemplate: bodies with the placeholders a and b
TemplateBodies == SeqsUpTo({"t", "{{a}}", "{{b}}"}, MaxBodyLen)

\* the names of variables: a and b occur in bodies, x in none
VariableNames == {"a", "b", "x"}

\* the values of variables: plain text, the empty text, texts with a
\* dollar sign, and a text that holds the placeholder of b
VariableValues ==
  {<<>>, <<"t">>, <<"$">>, <<"$", "t">>, <<"$", "$">>, <<"$", "&">>,
   <<"{{b}}">>}

\* Object.entries(variables): up to two entries with distinct names, in
\* insertion order
VariableEntries ==
  {<<>>}
  \cup {<<[key |-> k, value |-> v]>> : k \in VariableNames, v \in VariableValues}
  \cup {<<[key |-> k[1], value |-> v1], [key |-> k[2], value |-> v2]>> :
          k \in {kk \in VariableNames \X VariableNames : kk[1] # kk[2]},
          v1 \in VariableValues, v2 \in VariableValues}

\* `{{${key}}}`
placeholderOf(key) ==
  CASE key = "a" -> "{{a}}"
    [] key = "b" -> "{{b}}"
    [] OTHER -> "{{x}}"

\* what String.prototype.replace puts in place of one match when the
\* replacement is the string `value`: $$ stands for a dollar sign and $& for
\* the matched text; any other token stands for itself
RECURSIVE GetSubstitution(_, _)
GetSubstitution(matched, value) ==
  IF value = <<>>
    THEN <<>>
  ELSE IF Len(value) >= 2 /\ value[1] = "$" /\ value[2] = "$"
    THEN <<"$">> \o GetSubstitution(matched, SubSeq(value, 3, Len(value)))
  ELSE IF Len(value) >= 2 /\ value[1] = "$" /\ value[2] = "&"
    THEN <<matched>> \o GetSubstitution(matched, SubSeq(value, 3, Len(value)))
  ELSE <<value[1]>> \o GetSubstitution(matched, Tail(value))

\* rendered.replace(new RegExp(placeholder, 'g'), value)
RECURSIVE replaceAll(_, _, _)
replaceAll(text, placeholder, value) ==
  IF text = <<>>
    THEN <<>>
    ELSE (IF Head(text) = placeholder
            THEN GetSubstitution(placeholder, value)
            ELSE <<Head(text)>>)
         \o replaceAll(Tail(text), placeholder, value)

\* the loop of renderPrompt over the entries from the first on
RECURSIVE renderLoop(_, _)
renderLoop(rendered, entries) ==
  IF entries = <<>>
    THEN rendered
    ELSE renderLoop(
           replaceAll(rendered, placeholderOf(Head(entries).key),
                      Head(entries).value),
           Tail(entries))

\* renderPrompt(template, variables) (prompts.ts)
renderPrompt(userPromptTemplate, variables) ==
  renderLoop(userPromptTemplate, variables)

\* renderPrompt is about to be called with a template and a mapping
RenderInit ==
  /\ ClientAsConstructed
  /\ PlatformIdle
  /\ rendering \in [pc : {"called"}, userPromptTemplate : TemplateBodies,
                    variables : VariableEntries]
  /\ sampling = NotInUse
  /\ analysis = NotInUse
  /\ scoring = NotInUse
  /\ questions = NotInUse

\* renderPrompt returns the rendered text
RenderPrompt ==
  /\ rendering.pc = "called"
  /\ rendering' =
       [pc |-> "returned", userPromptTemplate |-> rendering.userPromptTemplate,
        variables |-> rendering.variables,
        rendered |-> renderPrompt(rendering.userPromptTemplate, rendering.variables)]
  /\ UNCHANGED <<platformVars, clientVars, sampling, analysis, scoring, questions>>

RenderNext == RenderPrompt

RenderSpec == RenderInit /\ [][RenderNext]_vars

\* the value of `name` in the mapping, and whether the mapping has it
Provided(variables, name) == \E i \in 1..Len(variables) : variables[i].key = name

ValueOf(variables, name) ==
  variables[CHOOSE i \in 1..Len(variables) : variables[i].key = name].value

\* the body with every placeholder of a provided name replaced by that
\* name's value, as it is, and every other token kept
RECURSIVE Substituted(_, _)
Substituted(text, variables) ==
  IF text = <<>>
    THEN <<>>
    ELSE (CASE Head(text) = "{{a}}" /\ Provided(variables, "a") ->
                 ValueOf(variables, "a")
            [] Head(text) = "{{b}}" /\ Provided(variables, "b") ->
                 ValueOf(variables, "b")
            [] OTHER -> <<Head(text)>>)
         \o Substituted(Tail(text), variables)

\* C12: for every template and mapping renderPrompt returns the body with
\* every occurrence of each provided name's placeholder replaced by that
\* name's value, placeholders of absent names kept, variables the body does
\* not reference ignored (with the empty mapping: the body itself).
C12_RendersProvidedValues ==
  rendering.pc = "returned" =>
    rendering.rendered = Substituted(rendering.userPromptTemplate, rendering.variables)

\* ======================================================================
\* DescriptionAnalysisService: analyzeDescription and recommendTechStack
\* ======================================================================
\* ----- JSON values, tagged with what typeof / Array.isArray tell of them
JNull == [t |-> "null"]
JUndefined == [t |-> "undefined"]
JStr(s) == [t |-> "string", s |-> s]
JNum(n) == [t |-> "number", n |-> n]
JBool(b) == [t |-> "boolean", b |-> b]
JArr(items) == [t |-> "array", items |-> items]
JObj(members) == [t |-> "object", members |-> members]

\* value.key on a value that is neither null nor undefined
get(value, key) ==
  IF value.t = "object" /\ key \in DOMAIN value.members
    THEN value.members[key]
    ELSE JUndefined

\* value?.key
getOptional(value, key) ==
  IF value.t \in {"null", "undefined"} THEN JUndefined ELSE get(value, key)

\* value.key throws a TypeError
getThrows(value) == value.t \in {"null", "undefined"}

\* Array.isArray(value) ? value : []
arrayOrEmpty(value) == IF value.t = "array" THEN value ELSE JArr(<<>>)

\* typeof value === 'string' ? value : fallback
stringOr(value, fallback) == IF value.t = "string" THEN value ELSE JStr(fallback)

\* String.prototype.toUpperCase on the method names used here
toUpperCase(s) ==
  CASE s = "get" -> "GET"
    [] s = "post" -> "POST"
    [] OTHER -> s

\* ----- the text of a completion: prose, braces, and the members written
\* between braces (a run of "key": value pairs)
Prose == [tok |-> "prose"]
LBrace == [tok |-> "{"]
RBrace == [tok |-> "}"]
MembersToken(members) == [tok |-> "members", members |-> members]

\* longest completion text explored, in tokens
MaxTextLen == 4

\* content.match(/\{[\s\S]*\}/): from the first { to the last }
matchBraces(content) ==
  LET opens == {i \in 1..Len(content) : content[i].tok = "{"}
      closes == {i \in 1..Len(content) : content[i].tok = "}"}
      first == CHOOSE i \in opens : \A k \in opens : i <= k
      last == CHOOSE j \in closes : \A k \in closes : k <= j
  IN IF opens # {} /\ closes # {} /\ first < last
       THEN [found |-> TRUE, text |-> SubSeq(content, first, last)]
       ELSE [found |-> FALSE, text |-> <<>>]

\* the members of an object body: of a repeated key the last value stays
RECURSIVE membersOf(_)
membersOf(tokens) ==
  IF tokens = <<>>
    THEN <<>>
    ELSE LET before == membersOf(SubSeq(tokens, 1, Len(tokens) - 1))
             lastToken == tokens[Len(tokens)].members
         IN [k \in DOMAIN before \cup DOMAIN lastToken |->
               IF k \in DOMAIN lastToken THEN lastToken[k] ELSE before[k]]

\* JSON.parse on a text that starts with { and ends with }: a SyntaxError
\* unless everything between the two braces is members
JSONparse(text) ==
  LET inner == SubSeq(text, 2, Len(text) - 1)
  IN IF \A i \in 1..Len(inner) : inner[i].tok = "members"
       THEN [ok |-> TRUE, value |-> JObj(membersOf(inner))]
       ELSE [ok |-> FALSE, value |-> JUndefined]

\* parsing that takes a text without a JSON object for the empty object
extractJsonLenient(content, prefix) ==
  LET jsonMatch == matchBraces(content)
      parsed == JSONparse(jsonMatch.text)
  IN IF jsonMatch.found /\ parsed.ok
       THEN [ok |-> TRUE, value |-> parsed.value, message |-> <<>>]
       ELSE [ok |-> TRUE, value |-> JObj(<<>>), message |-> <<>>]

\* the body shared by parseAnalysisResponse and parseTechStackResponse: the
\* parsed object, or the Error whose message is `prefix` and the cause's
extractJson(content, prefix) ==
  LET jsonMatch == matchBraces(content)
      parsed == JSONparse(jsonMatch.text)
  IN IF ~jsonMatch.found
       THEN [ok |-> FALSE, value |-> JUndefined,
             message |-> <<prefix, "No JSON found in AI response">>]
     ELSE IF ~parsed.ok
       THEN [ok |-> FALSE, value |-> JUndefined,
             message |-> <<prefix, "SyntaxError: Unexpected token">>]
     ELSE [ok |-> TRUE, value |-> parsed.value, message |-> <<>>]

parseAnalysisResponse(content) ==
  extractJson(content, "Failed to parse analysis response: ")

parseTechStackResponse(content) ==
  extractJson(content, "Failed to parse tech stack response: ")

\* array.map(F) throws a TypeError: F reads a property of a null entry
mapThrows(array) ==
  array.t = "array" /\ \E i \in 1..Len(array.items) : getThrows(array.items[i])

validateDataModel(model) ==
  JObj([name |-> stringOr(get(model, "name"), "Unknown"),
        fields |-> arrayOrEmpty(get(model, "fields")),
        relationships |-> arrayOrEmpty(get(model, "relationships"))])

validateAPIEndpoint(endpoint) ==
  JObj([method |->
          IF get(endpoint, "method").t = "string"
            THEN JStr(toUpperCase(get(endpoint, "method").s))
            ELSE JStr("GET"),
        path |-> stringOr(get(endpoint, "path"), "/"),
        description |-> stringOr(get(endpoint, "description"), "")])

validateAuthentication(auth) ==
  JObj([required |->
          IF getOptional(auth, "required").t = "boolean"
            THEN getOptional(auth, "required")
            ELSE JBool(FALSE),
        type |-> stringOr(getOptional(auth, "type"), "JWT")])

validateDatabase(db) ==
  JObj([type |-> stringOr(getOptional(db, "type"), "unknown"),
        reasoning |-> stringOr(getOptional(db, "reasoning"), "")])

\* result.dataModels.map(this.validateDataModel)
mapDataModels(array) ==
  JArr([i \in 1..Len(array.items) |-> validateDataModel(array.items[i])])

\* result.apiEndpoints.map(this.validateAPIEndpoint)
mapAPIEndpoints(array) ==
  JArr([i \in 1..Len(array.items) |-> validateAPIEndpoint(array.items[i])])

\* validateAnalysisResult throws instead of returning
validateAnalysisResultThrows(result) ==
  mapThrows(get(result, "dataModels")) \/ mapThrows(get(result, "apiEndpoints"))

\* validateAnalysisResult (index.ts:268-282), when it returns
validateAnalysisResult(result) ==
  JObj([functionality |-> arrayOrEmpty(get(result, "functionality")),
        dataModels |->
          IF get(result, "dataModels").t = "array"
            THEN mapDataModels(get(result, "dataModels"))
            ELSE JArr(<<>>),
        apiEndpoints |->
          IF get(result, "apiEndpoints").t = "array"
            THEN mapAPIEndpoints(get(result, "apiEndpoints"))
            ELSE JArr(<<>>),
        authentication |-> validateAuthentication(get(result, "authentication")),
        database |-> validateDatabase(get(result, "database")),
        integrations |-> arrayOrEmpty(get(result, "integrations")),
        performance |-> arrayOrEmpty(get(result, "performance")),
        security |-> arrayOrEmpty(get(result, "security")),
        clarificationQuestions |->
          arrayOrEmpty(get(result, "clarificationQuestions"))])

\* ['low', 'medium', 'high'].includes(value) ? value : 'medium'
validateComplexity(value) ==
  IF value.t = "string" /\ value.s \in {"low", "medium", "high"}
    THEN value
    ELSE JStr("medium")

validateCommunitySupport(value) ==
  IF value.t = "string" /\ value.s \in {"poor", "fair", "good", "excellent"}
    THEN value
    ELSE JStr("good")

\* typeof value === 'number' ? value : fallback
numberOr(value, fallback) == IF value.t = "number" THEN value ELSE JNum(fallback)

validateTechStackRecommendation(rec) ==
  JObj([rank |-> numberOr(get(rec, "rank"), 1),
        score |-> numberOr(get(rec, "score"), 0),
        language |-> stringOr(get(rec, "language"), "JavaScript"),
        framework |-> stringOr(get(rec, "framework"), "Express.js"),
        database |-> stringOr(get(rec, "database"), "MongoDB"),
        additionalTools |-> arrayOrEmpty(get(rec, "additionalTools")),
        pros |-> arrayOrEmpty(get(rec, "pros")),
        cons |-> arrayOrEmpty(get(rec, "cons")),
        reasoning |-> stringOr(get(rec, "reasoning"), ""),
        complexity |-> validateComplexity(get(rec, "complexity")),
        learningCurve |-> validateComplexity(get(rec, "learningCurve")),
        scalability |-> validateComplexity(get(rec, "scalability")),
        communitySupport |->
          validateCommunitySupport(get(rec, "communitySupport"))])

\* result.recommendations.map(this.validateTechStackRecommendation)
mapRecommendations(array) ==
  JArr([i \in 1..Len(array.items) |->
          validateTechStackRecommendation(array.items[i])])

validateTechStackRecommendationsThrows(result) ==
  mapThrows(get(result, "recommendations"))

\* validateTechStackRecommendations (index.ts:314-320), when it returns
validateTechStackRecommendations(result) ==
  JObj([recommendations |->
          IF get(result, "recommendations").t = "array"
            THEN mapRecommendations(get(result, "recommendations"))
            ELSE JArr(<<>>)])

\* ----- what the model writes between braces
\* for analyzeDescription: the example of a partial answer; lists whose
\* entries are not text; fields of the wrong type; lists of descriptors, well
\* formed, partial, and with an entry that is null or a number
AnalysisMembers ==
  { [functionality |-> JArr(<<JStr("blog posts")>>),
     authentication |-> JObj([required |-> JBool(TRUE)]),
     database |-> JObj([type |-> JStr("MongoDB")])],
    [functionality |-> JArr(<<JNum(1)>>)],
    [functionality |-> JStr("blog posts"),
     authentication |-> JObj([required |-> JStr("yes"), type |-> JNum(5)]),
     database |-> JNull],
    [dataModels |-> JArr(<<JObj([name |-> JStr("Post"),
                                 fields |-> JArr(<<JStr("title")>>)])>>),
     apiEndpoints |-> JArr(<<JObj([method |-> JStr("get"),
                                   path |-> JStr("/posts")]),
                             JNum(7)>>)],
    [dataModels |-> JArr(<<JNull>>)] }

\* for recommendTechStack: a complete entry, entries whose score is above
\* 100, negative, not a number or missing, an entry that is null, and a
\* recommendations field that is no list
RecommendationMembers ==
  { [recommendations |->
       JArr(<<JObj([rank |-> JNum(1), score |-> JNum(85),
                    language |-> JStr("TypeScript"),
                    complexity |-> JStr("low"),
                    communitySupport |-> JStr("excellent")])>>)],
    [recommendations |-> JArr(<<JObj([score |-> JNum(150)])>>)],
    [recommendations |->
       JArr(<<JObj([score |-> JNum(-5)]), JObj([score |-> JStr("high")]),
              JObj(<<>>)>>)],
    [recommendations |-> JArr(<<JNull>>)],
    [recommendations |-> JStr("none")] }

TextTokens(op) ==
  {Prose, LBrace, RBrace}
  \cup {MembersToken(m) :
          m \in IF op = "analyzeDescription"
                  THEN AnalysisMembers
                  ELSE RecommendationMembers}

\* the texts the client returns as response.content
CompletionTexts(op) == SeqsUpTo(TextTokens(op), MaxTextLen)

\* what generate throws to its caller: lastError of the attempt at which the
\* loop is left (client.ts:80-82), and null when maxRetries is 0 (client.ts:88)
ClientRaises ==
  IF config.maxRetries = 0
    THEN {NoError}
    ELSE {handleError(message, attempt) :
            message \in ProviderErrors \cup {NoContentMessage},
            attempt \in {a \in 1..config.maxRetries :
                           \/ a = config.maxRetries
                           \/ \E m \in ProviderErrors \cup {NoContentMessage} :
                                ~handleError(m, a).retryable}}

\* the text of a provider's message, known by the markers it contains
messageText(message) ==
  IF message = {}
    THEN <<"No response content received from AI service">>
    ELSE <<CHOOSE marker \in message : TRUE>>

\* error instanceof Error: true of what an Error constructor built, false of
\* the object literal handleError returns (client.ts:179-186) and of null
instanceofError(error) == error.name \in {"Error", "TypeError", "SyntaxError"}

TaskPrefix(op) ==
  IF op = "analyzeDescription"
    THEN "Failed to analyze description: "
    ELSE "Failed to generate tech stack recommendations: "

\* the catch block of analyzeDescription / recommendTechStack for a value
\* thrown by the client (index.ts:95-97, 116-118)
wrapClientError(op, error) ==
  <<TaskPrefix(op)>>
  \o (IF instanceofError(error)
        THEN messageText(error.message)
        ELSE <<"Unknown error">>)

\* analyzeDescription / recommendTechStack from the client's response on
\* (index.ts:93-97, 114-118): parse, validate, and wrap whatever is thrown
afterResponse(op, content) ==
  LET parsed == IF op = "analyzeDescription"
                  THEN parseAnalysisResponse(content)
                  ELSE parseTechStackResponse(content)
      throws == IF op = "analyzeDescription"
                  THEN validateAnalysisResultThrows(parsed.value)
                  ELSE validateTechStackRecommendationsThrows(parsed.value)
      settled == [pc |-> "thrown", op |-> op, clientOutcome |-> "returned",
                  content |-> content, raised |-> NoError,
                  result |-> JUndefined, message |-> <<>>]
  IN IF ~parsed.ok
       THEN [settled EXCEPT !.message = <<TaskPrefix(op)>> \o parsed.message]
     ELSE IF throws
       THEN [settled EXCEPT
               !.message = <<TaskPrefix(op),
                             "TypeError: Cannot read properties of null">>]
     ELSE [settled EXCEPT
             !.pc = "returned",
             !.result = IF op = "analyzeDescription"
                          THEN validateAnalysisResult(parsed.value)
                          ELSE validateTechStackRecommendations(parsed.value)]

\* the service is constructed over a client, configured with any maxRetries
AnalysisInit ==
  /\ config \in [maxRetries : 0..MaxRetriesBound, model : {"gpt-4-turbo"},
                 retryDelay : {RetryDelay}]
  /\ ClientFresh
  /\ PlatformIdle
  /\ analysis = [pc |-> "idle"]
  /\ sampling = NotInUse
  /\ rendering = NotInUse
  /\ scoring = NotInUse
  /\ questions = NotInUse

\* analyzeDescription or recommendTechStack is called and awaits the client
AnalysisCall(op) ==
  /\ analysis.pc = "idle"
  /\ analysis' = [pc |-> "awaiting", op |-> op]
  /\ UNCHANGED <<platformVars, clientVars, sampling, rendering, scoring, questions>>

analyzeDescription == AnalysisCall("analyzeDescription")

recommendTechStack == AnalysisCall("recommendTechStack")

\* generateWithTemplate returns a response
AnalysisClientReturns ==
  /\ analysis.pc = "awaiting"
  /\ \E content \in CompletionTexts(analysis.op) :
       analysis' = afterResponse(analysis.op, content)
  /\ UNCHANGED <<platformVars, clientVars, sampling, rendering, scoring, questions>>

\* generateWithTemplate throws
AnalysisClientRaises ==
  /\ analysis.pc = "awaiting"
  /\ \E error \in ClientRaises :
       analysis' = [pc |-> "thrown", op |-> analysis.op,
                    clientOutcome |-> "raised", content |-> <<>>,
                    raised |-> error, result |-> JUndefined,
                    message |-> wrapClientError(analysis.op, error)]
  /\ UNCHANGED <<platformVars, clientVars, sampling, rendering, scoring, questions>>

AnalysisNext ==
  \/ analyzeDescription
  \/ recommendTechStack
  \/ AnalysisClientReturns
  \/ AnalysisClientRaises

AnalysisSpec == AnalysisInit /\ [][AnalysisNext]_vars

\* ----- the schema of AnalysisResult (index.ts:32-64)
IsTextList(value) ==
  value.t = "array" /\ \A i \in 1..Len(value.items) : value.items[i].t = "string"

IsDataModel(value) ==
  /\ value.t = "object"
  /\ DOMAIN value.members = {"name", "fields", "relationships"}
  /\ value.members.name.t = "string"
  /\ IsTextList(value.members.fields)
  /\ IsTextList(value.members.relationships)

IsAPIEndpoint(value) ==
  /\ value.t = "object"
  /\ DOMAIN value.members = {"method", "path", "description"}
  /\ \A k \in {"method", "path", "description"} : value.members[k].t = "string"

IsAnalysisResult(value) ==
  /\ value.t = "object"
  /\ DOMAIN value.members =
       {"functionality", "dataModels", "apiEndpoints", "authentication",
        "database", "integrations", "performance", "security",
        "clarificationQuestions"}
  /\ \A k \in {"functionality", "integrations", "performance", "security",
              "clarificationQuestions"} : IsTextList(value.members[k])
  /\ value.members.dataModels.t = "array"
  /\ \A i \in 1..Len(value.members.dataModels.items) :
       IsDataModel(value.members.dataModels.items[i])
  /\ value.members.apiEndpoints.t = "array"
  /\ \A i \in 1..Len(value.members.apiEndpoints.items) :
       IsAPIEndpoint(value.members.apiEndpoints.items[i])
  /\ value.members.authentication.t = "object"
  /\ value.members.authentication.members.required.t = "boolean"
  /\ value.members.authentication.members.type.t = "string"
  /\ value.members.database.t = "object"
  /\ value.members.database.members.type.t = "string"
  /\ value.members.database.members.reasoning.t = "string"

\* the text holds a JSON object: from its first { to its last } there is
\* nothing but members
ContainsJsonObject(content) ==
  \E i, j \in 1..Len(content) :
    /\ i < j
    /\ content[i].tok = "{" /\ \A k \in 1..(i - 1) : content[k].tok # "{"
    /\ content[j].tok = "}" /\ \A k \in (j + 1)..Len(content) : content[k].tok # "}"
    /\ \A k \in (i + 1)..(j - 1) : content[k].tok = "members"

\* the defaults of the fields the model's object lacks or gives the wrong
\* type
DefaultsApplied(object, result) ==
  /\ \A k \in {"functionality", "dataModels", "apiEndpoints", "integrations",
              "performance", "security", "clarificationQuestions"} :
       get(object, k).t # "array" => result.members[k] = JArr(<<>>)
  /\ getOptional(get(object, "authentication"), "required").t # "boolean"
       => result.members.authentication.members.required = JBool(FALSE)
  /\ getOptional(get(object, "authentication"), "type").t # "string"
       => result.members.authentication.members.type = JStr("JWT")
  /\ getOptional(get(object, "database"), "type").t # "string"
       => result.members.database.members.type = JStr("unknown")
  /\ getOptional(get(object, "database"), "reasoning").t # "string"
       => result.members.database.members.reasoning = JStr("")

\* C13: whatever JSON object the model returns, the AnalysisResult that
\* analyzeDescription returns has all nine fields, each of the type of the
\* schema (lists of text, lists of well-formed descriptors, authentication
\* {required: boolean, type: text}, database {type: text, reasoning: text}),
\* with the default in place of each missing or wrongly typed field.
C13_ResultHasSchemaTypes ==
  (analysis.pc = "returned" /\ analysis.op = "analyzeDescription") =>
    /\ IsAnalysisResult(analysis.result)
    /\ DefaultsApplied(parseAnalysisResponse(analysis.content).value,
                       analysis.result)

\* C14: after a successful LLM call analyzeDescription and recommendTechStack
\* fail only when the text holds no JSON object or the extracted text does
\* not parse: no field and no entry of dataModels, apiEndpoints or
\* recommendations of a parsed object makes them fail.
C14_FailsOnlyWithoutJson ==
  (analysis.pc = "thrown" /\ analysis.clientOutcome = "returned") =>
    ~ContainsJsonObject(analysis.content)

\* C15: when the text of the response holds no JSON object, or what lies
\* between its first { and last } is not valid JSON, analyzeDescription and
\* recommendTechStack throw an error of the task that wraps the parsing
\* error, and return nothing.
C15_NoResultWithoutJson ==
  ( /\ analysis.pc \in {"returned", "thrown"}
    /\ analysis.clientOutcome = "returned"
    /\ ~ContainsJsonObject(analysis.content) )
  => /\ analysis.pc = "thrown"
     /\ analysis.result = JUndefined
     /\ Len(analysis.message) = 3
     /\ analysis.message[1] = TaskPrefix(analysis.op)
     /\ analysis.message[2] =
          IF analysis.op = "analyzeDescription"
            THEN "Failed to parse analysis response: "
            ELSE "Failed to parse tech stack response: "
     /\ analysis.message[3] \in
          {"No JSON found in AI response", "SyntaxError: Unexpected token"}

\* analyzeDescription failed on a text with two objects and prose between
\* them: the text from the first { to the last } is not valid JSON
C15_Witness ==
  /\ analysis.pc = "thrown"
  /\ analysis.op = "analyzeDescription"
  /\ analysis.clientOutcome = "returned"
  /\ Len(analysis.content) = 4
  /\ analysis.content[1].tok = "{"
  /\ analysis.content[2].tok = "}"
  /\ analysis.content[3].tok = "prose"
  /\ analysis.content[4].tok = "}"
  /\ analysis.message[3] = "SyntaxError: Unexpected token"

\* C16: when the LLM client raises a classified error, the error that
\* analyzeDescription (recommendTechStack) throws has the message
\* 'Failed to analyze description: ' ('Failed to generate tech stack
\* recommendations: ') followed by the message of the client's error.
C16_ClientMessagePreserved ==
  ( /\ analysis.pc = "thrown"
    /\ analysis.clientOutcome = "raised"
    /\ analysis.raised.name = "AIServiceError" )
  => analysis.message =
       <<TaskPrefix(analysis.op)>> \o messageText(analysis.raised.message)

\* C17: every recommendation that recommendTechStack returns has a score
\* within 0..100, whatever the model's JSON gives for score.
C17_ScoreWithinRange ==
  (analysis.pc = "returned" /\ analysis.op = "recommendTechStack") =>
    \A i \in 1..Len(analysis.result.members.recommendations.items) :
      LET score == analysis.result.members.recommendations.items[i].members.score
      IN score.t = "number" /\ 0 <= score.n /\ score.n <= 100

\* ======================================================================
\* scoreTechStackRecommendation
\* ======================================================================
\* the characters of the texts used here: names of databases, database types
\* and functionality statements
charsOf(name) ==
  CASE name = "User login" ->
         <<"U", "s", "e", "r", " ", "l", "o", "g", "i", "n">>
    [] name = "Email alerts" ->
         <<"E", "m", "a", "i", "l", " ", "a", "l", "e", "r", "t", "s">>
    [] name = "blog posts" ->
         <<"b", "l", "o", "g", " ", "p", "o", "s", "t", "s">>
    [] name = "PostgreSQL" -> <<"P", "o", "s", "t", "g", "r", "e", "S", "Q", "L">>
    [] name = "MongoDB" -> <<"M", "o", "n", "g", "o", "D", "B">>
    [] name = "Neo4j" -> <<"N", "e", "o", "4", "j">>
    [] name = "SQL" -> <<"S", "Q", "L">>
    [] name = "NoSQL" -> <<"N", "o", "S", "Q", "L">>
    [] name = "unknown" -> <<"u", "n", "k", "n", "o", "w", "n">>

sqlDatabases ==
  <<<<"p", "o", "s", "t", "g", "r", "e", "s", "q", "l">>,
    <<"m", "y", "s", "q", "l">>,
    <<"s", "q", "l", "i", "t", "e">>,
    <<"m", "s", "s", "q", "l">>>>

nosqlDatabases ==
  <<<<"m", "o", "n", "g", "o", "d", "b">>,
    <<"c", "a", "s", "s", "a", "n", "d", "r", "a">>,
    <<"d", "y", "n", "a", "m", "o", "d", "b">>,
    <<"c", "o", "u", "c", "h", "d", "b">>>>

\* array.some(db => text.includes(db))
someIncluded(text, array) == \E i \in 1..Len(array) : includes(text, array[i])

\* matchDatabaseType (index.ts:348-364)
matchDatabaseType(recommended, required) ==
  LET recommendedLower == toLowerCase(charsOf(recommended))
      requiredLower == toLowerCase(charsOf(required))
  IN IF /\ includes(requiredLower, <<"s", "q", "l">>)
        /\ ~includes(requiredLower, <<"n", "o", "s", "q", "l">>)
       THEN someIncluded(recommendedLower, sqlDatabases)
     ELSE IF includes(requiredLower, <<"n", "o", "s", "q", "l">>)
       THEN someIncluded(recommendedLower, nosqlDatabases)
     ELSE \/ includes(recommendedLower, requiredLower)
          \/ includes(requiredLower, recommendedLower)

\* the own properties of the object literal popularStacks
popularStacks ==
  [name \in {"TypeScript", "JavaScript", "Python", "Java", "Go", "Express.js",
             "FastAPI", "Spring Boot", "Gin", "PostgreSQL", "MongoDB", "MySQL",
             "Redis"} |->
     CASE name = "TypeScript" -> 10
       [] name \in {"Python", "Express.js", "PostgreSQL"} -> 9
       [] name \in {"Go", "Gin", "MySQL"} -> 7
       [] OTHER -> 8]

\* the properties every object literal inherits from Object.prototype
ObjectPrototype ==
  {"constructor", "toString", "valueOf", "hasOwnProperty", "isPrototypeOf",
   "propertyIsEnumerable", "toLocaleString", "__proto__"}

\* popularStacks[name] || 5: a number, or the inherited function (an object
\* for __proto__), which is truthy and no number
popularity(name) ==
  IF name \in DOMAIN popularStacks
    THEN [number |-> TRUE, n |-> popularStacks[name]]
  ELSE IF name \in ObjectPrototype
    THEN [number |-> FALSE, n |-> 0]
  ELSE [number |-> TRUE, n |-> 5]

\* the preferences of a caller that supplies none
NoPreferences ==
  [supplied |-> FALSE, language |-> "undefined", framework |-> "undefined",
   database |-> "undefined"]

Max(x, y) == IF x >= y THEN x ELSE y

\* Math.max(0, Math.min(100, score)): NaN when score is not a number (a
\* function added to a number gives a string that is no numeral)
clamp(isNaN, score) ==
  IF isNaN
    THEN [isNaN |-> TRUE, value |-> 0]
    ELSE [isNaN |-> FALSE, value |-> Max(0, Min(100, score))]

\* the database type matching of scoreTechStackRecommendation
\* (index.ts:224-228): what it adds to the score
databaseTypeMatching(recommendation, requirements) ==
  IF requirements.databaseType # ""
    THEN (IF matchDatabaseType(recommendation.database,
                               requirements.databaseType)
            THEN 10 ELSE -5)
    ELSE 0

\* scoreTechStackRecommendation (index.ts:164-237); requirements by the
\* lengths of their lists and the database type
scoreTechStackRecommendation(recommendation, requirements, preferences) ==
  LET language == popularity(recommendation.language)
      framework == popularity(recommendation.framework)
      database == popularity(recommendation.database)
      preferenceBonus ==
        IF preferences.supplied
          THEN (IF preferences.language = recommendation.language THEN 15 ELSE 0)
               + (IF preferences.framework = recommendation.framework THEN 15 ELSE 0)
               + (IF preferences.database = recommendation.database THEN 15 ELSE 0)
          ELSE 0
      complexityScore ==
        CASE recommendation.complexity = "low" ->
               (IF requirements.functionality < 5 THEN 10 ELSE 0)
          [] recommendation.complexity = "medium" ->
               (IF requirements.functionality >= 5 /\ requirements.functionality <= 10
                  THEN 10 ELSE 5)
          [] recommendation.complexity = "high" ->
               (IF requirements.functionality > 10 THEN 10 ELSE -5)
      learningCurveScore ==
        CASE recommendation.learningCurve = "low" -> 10
          [] recommendation.learningCurve = "medium" -> 5
          [] recommendation.learningCurve = "high" -> -5
      scalabilityScore ==
        IF requirements.functionality > 8 \/ requirements.performance > 0
          THEN CASE recommendation.scalability = "low" -> -10
                 [] recommendation.scalability = "medium" -> 0
                 [] recommendation.scalability = "high" -> 15
          ELSE 0
      communityScore ==
        CASE recommendation.communitySupport = "poor" -> -5
          [] recommendation.communitySupport = "fair" -> 0
          [] recommendation.communitySupport = "good" -> 5
          [] recommendation.communitySupport = "excellent" -> 10
      databaseScore == databaseTypeMatching(recommendation, requirements)
      securityScore ==
        IF /\ requirements.security > 0
           /\ recommendation.language \in {"TypeScript", "Java", "Go"}
          THEN 5 ELSE 0
  IN clamp(~(language.number /\ framework.number /\ database.number),
           language.n + framework.n + database.n + preferenceBonus
           + complexityScore + learningCurveScore + scalabilityScore
           + communityScore + databaseScore + securityScore)

\* ----- the inputs explored
\* candidates: a language of the table that is also in the secure list, one
\* that is not in the table, and one whose name is an inherited property
Recommendations ==
  [language : {"TypeScript", "Rust", "constructor"},
   framework : {"Express.js", "Actix"},
   database : {"PostgreSQL", "MongoDB", "Neo4j"},
   complexity : {"low", "medium", "high"},
   learningCurve : {"low", "medium", "high"},
   scalability : {"low", "medium", "high"},
   communitySupport : {"poor", "fair", "good", "excellent"}]

\* requirements: the number of functionality items on each side of 5, 8 and
\* 10, performance and security notes or none, and the database type
ScoredRequirements ==
  [functionality : {0, 5, 9, 11},
   performance : {0, 1},
   security : {0, 1},
   databaseType : {"", "SQL", "NoSQL", "MongoDB", "unknown"}]

\* preferences: none supplied, all three equal to the candidate's, none equal
PreferencesFor(recommendation) ==
  { NoPreferences,
    [supplied |-> TRUE, language |-> recommendation.language,
     framework |-> recommendation.framework,
     database |-> recommendation.database],
    [supplied |-> TRUE, language |-> "Kotlin", framework |-> "Ktor",
     database |-> "SQLite"] }

\* scoreTechStackRecommendation is about to be called
ScoreInit ==
  /\ ClientAsConstructed
  /\ PlatformIdle
  /\ \E recommendation \in Recommendations, requirements \in ScoredRequirements :
       \E preferences \in PreferencesFor(recommendation) :
         scoring = [pc |-> "called", recommendation |-> recommendation,
                    requirements |-> requirements, preferences |-> preferences]
  /\ sampling = NotInUse
  /\ rendering = NotInUse
  /\ analysis = NotInUse
  /\ questions = NotInUse

\* scoreTechStackRecommendation returns the score
ScoreRecommendation ==
  /\ scoring.pc = "called"
  /\ scoring' =
       [pc |-> "returned", recommendation |-> scoring.recommendation,
        requirements |-> scoring.requirements,
        preferences |-> scoring.preferences,
        score |-> scoreTechStackRecommendation(
                    scoring.recommendation, scoring.requirements,
                    scoring.preferences)]
  /\ UNCHANGED <<platformVars, clientVars, sampling, rendering, analysis, questions>>

ScoreNext == ScoreRecommendation

ScoreSpec == ScoreInit /\ [][ScoreNext]_vars

\* C18: scoreTechStackRecommendation returns a number within 0..100 for every
\* candidate, requirements and preferences, empty requirement lists and
\* names outside the popularity table included.
C18_ScoreInRange ==
  scoring.pc = "returned" =>
    /\ ~scoring.score.isNaN
    /\ 0 <= scoring.score.value
    /\ scoring.score.value <= 100

\* the preferences equal the candidate's language, framework and database
AllMatch(preferences, recommendation) ==
  /\ preferences.supplied
  /\ preferences.language = recommendation.language
  /\ preferences.framework = recommendation.framework
  /\ preferences.database = recommendation.database

\* a > b on numbers, false when either is NaN
Higher(a, b) == ~a.isNaN /\ ~b.isNaN /\ a.value > b.value

\* C19: for every candidate and requirements the score with preferences that
\* equal the candidate's language, framework and database is strictly higher
\* than the score of the same candidate without preferences and with
\* preferences of which none is equal.
C19_MatchScoresHigher ==
  ( /\ scoring.pc = "returned"
    /\ AllMatch(scoring.preferences, scoring.recommendation) )
  => \A others \in PreferencesFor(scoring.recommendation) :
       ~AllMatch(others, scoring.recommendation) =>
         Higher(scoring.score,
                scoreTechStackRecommendation(scoring.recommendation,
                                             scoring.requirements, others))

\* ======================================================================
\* generateClarificationQuestions
\* ======================================================================
\* most questions the model supplies in an analysis explored here
MaxQuestions == 3

\* the contextual questions, in the order of their rules (index.ts:128-156)
PurposeQuestion == "What is the main purpose of your backend application?"
DataQuestion == "What kind of data will your application store and manage?"
EndpointsQuestion ==
  "What API endpoints do you need for your frontend or external integrations?"
AuthQuestion == "Do you need user authentication and authorization?"
DatabaseQuestion ==
  "Do you have any preferences for the database type (SQL vs NoSQL)?"
PerformanceQuestion ==
  "Are there any specific performance requirements or expected load?"
IntegrationsQuestion == "Do you need to integrate with any third-party services?"

\* f.toLowerCase().includes(word)
mentions(f, word) == includes(toLowerCase(charsOf(f)), word)

\* functionality.some(f => f mentions one of the words)
someMentions(functionality, words) ==
  \E i \in 1..Len(functionality) :
    \E word \in words : mentions(functionality[i], word)

\* condition ? [question] : []
pushIf(condition, question) == IF condition THEN <<question>> ELSE <<>>

\* [...new Set(questions)] keeping of each question its last occurrence
RECURSIVE uniqueKeepLast(_)
uniqueKeepLast(list) ==
  IF list = <<>>
    THEN <<>>
    ELSE LET rest == uniqueKeepLast(Tail(list))
         IN IF \E i \in 1..Len(Tail(list)) : Tail(list)[i] = Head(list)
              THEN rest
              ELSE <<Head(list)>> \o rest

\* [...new Set(questions)]: a Set iterates in the order of first insertion
RECURSIVE unique(_)
unique(list) ==
  IF list = <<>>
    THEN <<>>
    ELSE LET front == unique(SubSeq(list, 1, Len(list) - 1))
             last == list[Len(list)]
         IN IF \E i \in 1..Len(front) : front[i] = last
              THEN front
              ELSE Append(front, last)

\* generateClarificationQuestions (index.ts:124-159): the list returned, and
\* the analysis as the call leaves it (the pushes go to a copy of its list)
generateClarificationQuestions(given) ==
  LET pushed ==
        given.clarificationQuestions
        \o pushIf(Len(given.functionality) = 0, PurposeQuestion)
        \o pushIf(given.dataModels = 0, DataQuestion)
        \o pushIf(given.apiEndpoints = 0, EndpointsQuestion)
        \o pushIf(/\ ~given.authenticationRequired
                  /\ someMentions(given.functionality,
                                  {<<"u", "s", "e", "r">>,
                                   <<"a", "c", "c", "o", "u", "n", "t">>}),
                  AuthQuestion)
        \o pushIf(given.databaseType = "unknown" \/ given.databaseType = "",
                  DatabaseQuestion)
        \o pushIf(given.performance = 0 /\ Len(given.functionality) > 5,
                  PerformanceQuestion)
        \o pushIf(/\ given.integrations = 0
                  /\ someMentions(given.functionality,
                                  {<<"p", "a", "y", "m", "e", "n", "t">>,
                                   <<"e", "m", "a", "i", "l">>,
                                   <<"n", "o", "t", "i", "f", "i", "c", "a", "t",
                                     "i", "o", "n">>}),
                  IntegrationsQuestion)
  IN [questions |-> unique(pushed), analysis |-> given]

\* ----- the analyses explored: the questions of the model (one of its own,
\* and two that equal contextual questions, repeats allowed), functionality
\* lists with and without the trigger words and longer than 5, and the other
\* lists by their length
ModelQuestions ==
  SeqsUpTo({"Which cloud provider do you use?", PurposeQuestion,
            DatabaseQuestion}, MaxQuestions)

FunctionalityLists ==
  { <<>>, <<"blog posts">>, <<"User login">>, <<"Email alerts">>,
    <<"blog posts", "blog posts", "blog posts", "blog posts", "blog posts",
      "blog posts">>,
    <<"User login", "Email alerts", "blog posts", "blog posts", "blog posts",
      "blog posts">> }

QuestionedAnalyses ==
  [clarificationQuestions : ModelQuestions,
   functionality : FunctionalityLists,
   dataModels : {0, 1},
   apiEndpoints : {0, 1},
   authenticationRequired : BOOLEAN,
   databaseType : {"", "unknown", "PostgreSQL"},
   performance : {0, 1},
   integrations : {0, 1}]

\* generateClarificationQuestions is about to be called on an analysis
QuestionsInit ==
  /\ ClientAsConstructed
  /\ PlatformIdle
  /\ \E given \in QuestionedAnalyses :
       questions = [pc |-> "called", given |-> given, analysis |-> given]
  /\ sampling = NotInUse
  /\ rendering = NotInUse
  /\ analysis = NotInUse
  /\ scoring = NotInUse

\* generateClarificationQuestions returns
GenerateQuestions ==
  /\ questions.pc = "called"
  /\ LET r == generateClarificationQuestions(questions.analysis)
     IN questions' = [pc |-> "returned", given |-> questions.given,
                      analysis |-> r.analysis, result |-> r.questions]
  /\ UNCHANGED <<platformVars, clientVars, sampling, rendering, analysis, scoring>>

QuestionsNext == GenerateQuestions

QuestionsSpec == QuestionsInit /\ [][QuestionsNext]_vars

\* the contextual questions whose rule fires for an analysis, in rule order
ContextualQuestions(given) ==
  LET userWords == {<<"u", "s", "e", "r">>, <<"a", "c", "c", "o", "u", "n", "t">>}
      serviceWords ==
        {<<"p", "a", "y", "m", "e", "n", "t">>, <<"e", "m", "a", "i", "l">>,
         <<"n", "o", "t", "i", "f", "i", "c", "a", "t", "i", "o", "n">>}
      fired ==
        [q \in 1..7 |->
           CASE q = 1 -> given.functionality = <<>>
             [] q = 2 -> given.dataModels = 0
             [] q = 3 -> given.apiEndpoints = 0
             [] q = 4 -> /\ ~given.authenticationRequired
                         /\ someMentions(given.functionality, userWords)
             [] q = 5 -> given.databaseType \in {"", "unknown"}
             [] q = 6 -> Len(given.functionality) > 5 /\ given.performance = 0
             [] q = 7 -> /\ someMentions(given.functionality, serviceWords)
                         /\ given.integrations = 0]
      all == <<PurposeQuestion, DataQuestion, EndpointsQuestion, AuthQuestion,
               DatabaseQuestion, PerformanceQuestion, IntegrationsQuestion>>
  IN SelectSeq([q \in 1..7 |-> [text |-> all[q], fired |-> fired[q]]],
               LAMBDA x : x.fired)

\* the place of the first occurrence of a question in a list
FirstAt(list, question) ==
  CHOOSE i \in 1..Len(list) :
    list[i] = question /\ \A k \in 1..(i - 1) : list[k] # question

\* C20: generateClarificationQuestions returns the questions of the model
\* followed by the contextual questions whose rule fired, each once, in the
\* order of their first occurrence; for an analysis with no functionality, no
\* data models, no endpoints and no database type the four questions of
\* these rules are in the result; the analysis given is left as it was.
C20_QuestionsInOrderOnce ==
  questions.pc = "returned" =>
    LET given == questions.given
        result == questions.result
        contextual == ContextualQuestions(given)
        expected ==
          given.clarificationQuestions
          \o [i \in 1..Len(contextual) |-> contextual[i].text]
    IN /\ \A i, j \in 1..Len(result) : i # j => result[i] # result[j]
       /\ {result[i] : i \in 1..Len(result)}
            = {expected[i] : i \in 1..Len(expected)}
       /\ \A i, j \in 1..Len(result) :
            i < j => FirstAt(expected, result[i]) < FirstAt(expected, result[j])
       /\ ( /\ given.functionality = <<>>
            /\ given.dataModels = 0
            /\ given.apiEndpoints = 0
            /\ given.databaseType \in {"", "unknown"} )
          => {PurposeQuestion, DataQuestion, EndpointsQuestion, DatabaseQuestion}
               \subseteq {result[i] : i \in 1..Len(result)}
       /\ questions.analysis = given

\* an empty analysis whose model already asked the database question twice
\* and the purpose question: five questions come back, those two first
C20_Witness ==
  /\ questions.pc = "returned"
  /\ questions.given.clarificationQuestions =
       <<DatabaseQuestion, PurposeQuestion, DatabaseQuestion>>
  /\ questions.given.functionality = <<>>
  /\ questions.given.dataModels = 0
  /\ questions.given.apiEndpoints = 0
  /\ questions.given.databaseType = ""
  /\ questions.result =
       <<DatabaseQuestion, PurposeQuestion, DataQuestion, EndpointsQuestion>>

\* ------------------------------------------------ the window, as it is read
\* getRateLimitInfo (client.ts:218-220): a copy of the window state as stored
getRateLimitInfo == rateLimitInfo

\* C21: in every reachable state in which the current time is at or after the
\* stored resetTime, the window read through getRateLimitInfo has
\* currentRequests = 0 and currentTokens = 0.
C21_CountersZeroAfterResetTime ==
  now >= getRateLimitInfo.resetTime =>
    /\ getRateLimitInfo.currentRequests = 0
    /\ getRateLimitInfo.currentTokens = 0

\* ------------------------------------------------------------- AIService
\* the client objects AIService constructs are named 1, 2, ... in the order
\* of their construction; null is 0
MaxClients == 3
null == 0

\* a key absent from the Partial<AIServiceConfig> passed to initialize
Missing == "(missing)"

\* process.env.OPENAI_API_KEY: not set (undefined), or set
EnvironmentKeys == {Missing, "env-key"}

\* the arguments of initialize: apiKey and model, each given or not; an
\* apiKey may be given empty
InitializeArguments ==
  [apiKey : {Missing, "", "arg-key"}, model : {Missing, "gpt-3.5-turbo"}]

\* process.env.X || fallback
envOr(value, fallback) == IF value = Missing \/ value = "" THEN fallback ELSE value

\* service.ts:9-17 (apiKey and model; the other five fields are read the
\* same way as model)
defaultConfig(env) ==
  [apiKey |-> envOr(env, ""), model |-> "gpt-4-turbo"]

\* { ...defaultConfig, ...config } (service.ts:19)
spread(defaults, given) ==
  [k \in DOMAIN defaults |-> IF given[k] = Missing THEN defaults[k] ELSE given[k]]

NoConfig == [apiKey |-> "null", model |-> "null"]

\* AIService.initialize (service.ts:8-26): the statics afterwards, and whether
\* it returned or threw
initializeService(service, given) ==
  LET merged == spread(defaultConfig(service.env), given)
      assigned == [service EXCEPT !.config = merged]
  IN IF merged.apiKey = ""
       THEN [service |-> assigned, outcome |-> "thrown"]
       ELSE [service |->
               [assigned EXCEPT !.instance = Len(service.clients) + 1,
                                !.clients = Append(service.clients, merged)],
             outcome |-> "returned"]

\* getInstance that constructs a client at every call
getInstanceAlwaysConstructs(service) ==
  LET r == initializeService(service, [apiKey |-> Missing, model |-> Missing])
  IN [service |-> r.service, outcome |-> r.outcome,
      value |-> IF r.outcome = "returned" THEN r.service.instance ELSE null]

\* AIService.getInstance (service.ts:28-33)
getInstance(service) ==
  IF service.instance = null
    THEN LET r == initializeService(service,
                                    [apiKey |-> Missing, model |-> Missing])
         IN [service |-> r.service, outcome |-> r.outcome,
             value |-> IF r.outcome = "returned" THEN r.service.instance
                                                 ELSE null]
    ELSE [service |-> service, outcome |-> "returned",
          value |-> service.instance]

\* AIService.getConfig (service.ts:35-37)
getConfig == aiService.config

\* the record of a call of AIService: which, and what came of it
NoCall == [op |-> "none", outcome |-> "none", value |-> null]

called(service, op, outcome, value) ==
  [service EXCEPT !.previous = aiService.last,
                  !.last = [op |-> op, outcome |-> outcome, value |-> value]]

\* the statics at load (service.ts:5-6), in a process with or without the key
\* in its environment; no call made yet
ServiceInit ==
  /\ ClientAsConstructed
  /\ sampling = NotInUse
  /\ rendering = NotInUse
  /\ analysis = NotInUse
  /\ scoring = NotInUse
  /\ questions = NotInUse
  /\ PlatformIdleBut("aiService")
  /\ \E env \in EnvironmentKeys :
       aiService =
         [instance |-> null, config |-> NoConfig, env |-> env, clients |-> <<>>,
          last |-> NoCall, previous |-> NoCall]

ServiceFrame ==
  UNCHANGED <<clientVars, serviceVars, authRequest, project, delays,
              classification>>

ServiceInitialize ==
  /\ Len(aiService.clients) < MaxClients
  /\ \E given \in InitializeArguments :
       LET r == initializeService(aiService, given)
       IN aiService' = called(r.service, "initialize", r.outcome, null)
  /\ ServiceFrame

ServiceGetInstance ==
  /\ aiService.instance # null \/ Len(aiService.clients) < MaxClients
  /\ LET r == getInstance(aiService)
     IN aiService' = called(r.service, "getInstance", r.outcome, r.value)
  /\ ServiceFrame

\* AIService.reset (service.ts:39-42)
ServiceReset ==
  /\ aiService' =
       called([aiService EXCEPT !.instance = null, !.config = NoConfig],
              "reset", "returned", null)
  /\ ServiceFrame

\* the environment of the process changes between two calls (the tests set
\* and delete process.env.OPENAI_API_KEY)
ServiceEnvironment ==
  /\ \E env \in EnvironmentKeys \ {aiService.env} :
       aiService' = [aiService EXCEPT !.env = env]
  /\ ServiceFrame

ServiceNext ==
  \/ ServiceInitialize
  \/ ServiceGetInstance
  \/ ServiceReset
  \/ ServiceEnvironment

ServiceSpec == ServiceInit /\ [][ServiceNext]_vars

\* the step is a call of getInstance that returned
GetInstanceReturned ==
  /\ aiService' # aiService
  /\ aiService'.env = aiService.env
  /\ aiService'.last.op = "getInstance"
  /\ aiService'.last.outcome = "returned"

C22_Step ==
  GetInstanceReturned =>
    \* the object returned is the current instance
    /\ aiService'.last.value = aiService'.instance
    /\ aiService'.last.value # null
    \* the same object as the call before, when that was getInstance too
    /\ ( /\ aiService.last.op = "getInstance"
         /\ aiService.last.outcome = "returned" )
       => aiService'.last.value = aiService.last.value
    \* a client is constructed only when none exists
    /\ aiService.instance = null
       => Len(aiService'.clients) = Len(aiService.clients) + 1
    /\ aiService.instance # null
       => /\ aiService'.instance = aiService.instance
          /\ aiService'.clients = aiService.clients

\* C22: getInstance returns the same client object on consecutive calls with
\* no initialize or reset in between, and constructs a client only when none
\* exists (first use, or first use after reset).
C22_SameInstanceUntilReinitialized == [][C22_Step]_vars

\* the second of two consecutive getInstance calls after a reset: the second
\* client ever constructed is returned again
C22_Witness ==
  /\ aiService.previous = aiService.last
  /\ aiService.last.op = "getInstance"
  /\ aiService.last.outcome = "returned"
  /\ aiService.last.value = 2
  /\ Len(aiService.clients) = 2
  /\ aiService.instance = 2
  /\ aiService.env = Missing

\* C30: initialize without an API key constructs no client and leaves the
\* service state as it was, so that after any sequence of initialize,
\* getInstance and reset calls getConfig is non-null exactly when a client
\* instance exists, and it is the configuration that client was constructed
\* with.
C30_ConfigIsTheInstanceConfig ==
  /\ getConfig # NoConfig <=> aiService.instance # null
  /\ aiService.instance # null
     => getConfig = aiService.clients[aiService.instance]

\* -------------------------------------------------- authentication tokens
\* the users a token may name: one whose document exists, one deleted since
UserIds == {"u1", "gone"}
ExistingUsers == {"u1"}

\* a token as jwt.verify sees it: the payload that was signed (the type is
\* "none" for a payload without the field), whether the signature is by the
\* server's secret, and whether exp is in the past
Tokens ==
  [id : UserIds, type : {"access", "refresh", "none"},
   signature : {"valid", "forged"}, expired : BOOLEAN]

\* jwt.verify(token, secret): the payload, or the error it throws; the
\* signature is checked before the expiry
jwtVerify(token) ==
  IF token.signature # "valid"
    THEN [ok |-> FALSE, name |-> "JsonWebTokenError"]
  ELSE IF token.expired
    THEN [ok |-> FALSE, name |-> "TokenExpiredError"]
  ELSE [ok |-> TRUE, name |-> ""]

\* User.findById(decoded.id)
findById(id) == id \in ExistingUsers

NoUser == "undefined"
NoTokens == [accessToken |-> "none", refreshToken |-> "none"]

\* what a handler did: the response it sent (status 0: none), whether next
\* was called, req.user, and the tokens in the response body
handled(status, error, code, nextCalled, user, tokens) ==
  [status |-> status, error |-> error, code |-> code, nextCalled |-> nextCalled,
   user |-> user, tokens |-> tokens]

rejected(status, error, code) ==
  handled(status, error, code, FALSE, NoUser, NoTokens)

\* generateTokens (auth.ts:106-111): a pair named by its user
generateTokens(id) ==
  [accessToken |-> <<"access", id>>, refreshToken |-> <<"refresh", id>>]

\* authMiddleware that accepts a payload of any type
authMiddlewareAnyType(request) ==
  IF ~request.tokenGiven
    THEN rejected(401, "Access denied. No token provided.", "")
  ELSE IF ~request.secretConfigured
    THEN rejected(500, "Server configuration error", "")
  ELSE LET decoded == jwtVerify(request.token)
       IN IF decoded.name = "TokenExpiredError"
            THEN rejected(401, "Token expired", "TOKEN_EXPIRED")
          ELSE IF decoded.name = "JsonWebTokenError"
            THEN rejected(401, "Invalid token", "")
          ELSE IF ~findById(request.token.id)
            THEN rejected(401, "Invalid token. User not found.", "")
          ELSE handled(0, "", "", TRUE, request.token.id, NoTokens)

\* authMiddleware (auth.ts:20-78)
authMiddleware(request) ==
  IF ~request.tokenGiven
    THEN rejected(401, "Access denied. No token provided.", "")
  ELSE IF ~request.secretConfigured
    THEN rejected(500, "Server configuration error", "")
  ELSE LET decoded == jwtVerify(request.token)
       IN IF decoded.name = "TokenExpiredError"
            THEN rejected(401, "Token expired", "TOKEN_EXPIRED")
          ELSE IF decoded.name = "JsonWebTokenError"
            THEN rejected(401, "Invalid token", "")
          ELSE IF request.token.type # "access"
            THEN rejected(401, "Invalid token type", "")
          ELSE IF ~findById(request.token.id)
            THEN rejected(401, "Invalid token. User not found.", "")
          ELSE handled(0, "", "", TRUE, request.token.id, NoTokens)

\* verifyRefreshToken (auth.ts:113-126): the payload, or the error thrown
verifyRefreshToken(request) ==
  IF ~request.secretConfigured
    THEN [ok |-> FALSE, name |-> "Error"]
  ELSE LET decoded == jwtVerify(request.token)
       IN IF ~decoded.ok
            THEN decoded
          ELSE IF request.token.type # "refresh"
            THEN [ok |-> FALSE, name |-> "Error"]
          ELSE decoded

\* POST /api/auth/refresh (routes/auth.ts:185-234); the body carries the
\* token in refreshToken, or lacks the field
refreshRoute(request) ==
  IF ~request.tokenGiven
    THEN rejected(400, "Refresh token is required", "")
  ELSE LET decoded == verifyRefreshToken(request)
       IN IF decoded.name = "TokenExpiredError"
            THEN rejected(401, "Refresh token has expired",
                          "REFRESH_TOKEN_EXPIRED")
          ELSE IF ~decoded.ok
            THEN rejected(401, "Invalid or expired refresh token",
                          "INVALID_REFRESH_TOKEN")
          ELSE IF ~findById(request.token.id)
            THEN rejected(401, "Invalid refresh token. User not found.",
                          "USER_NOT_FOUND")
          ELSE handled(200, "", "", FALSE, NoUser,
                       generateTokens(request.token.id))

\* the requests explored: a token in the Authorization header or in the body
\* (or none), with JWT_SECRET set or not
AuthRequests ==
  [token : Tokens, tokenGiven : BOOLEAN, secretConfigured : BOOLEAN]

AuthInit ==
  /\ ClientAsConstructed
  /\ sampling = NotInUse
  /\ rendering = NotInUse
  /\ analysis = NotInUse
  /\ scoring = NotInUse
  /\ questions = NotInUse
  /\ PlatformIdleBut("authRequest")
  /\ \E request \in AuthRequests :
       authRequest = [pc |-> "received", route |-> "none", request |-> request,
                      result |-> rejected(0, "", "")]

AuthFrame ==
  UNCHANGED <<clientVars, serviceVars, aiService, project, delays,
              classification>>

\* a protected route: the request passes through authMiddleware
AuthMiddleware ==
  /\ authRequest.pc = "received"
  /\ authRequest' = [authRequest EXCEPT !.pc = "done", !.route = "protected",
                       !.result = authMiddleware(authRequest.request)]
  /\ AuthFrame

\* the request is a POST to /api/auth/refresh
AuthRefresh ==
  /\ authRequest.pc = "received"
  /\ authRequest' = [authRequest EXCEPT !.pc = "done", !.route = "refresh",
                       !.result = refreshRoute(authRequest.request)]
  /\ AuthFrame

AuthNext == AuthMiddleware \/ AuthRefresh

AuthSpec == AuthInit /\ [][AuthNext]_vars

\* jwt.verify accepts the token: signed with the server's secret, not expired
ValidlySigned(request) ==
  /\ request.tokenGiven
  /\ request.secretConfigured
  /\ jwtVerify(request.token).ok

\* C23: a validly signed token of type 'refresh' is never accepted by
\* authMiddleware (401 'Invalid token type', next not called, req.user not
\* set), and a validly signed token of type 'access' is never accepted by
\* verifyRefreshToken or POST /api/auth/refresh (401, no new tokens issued).
C23_TokenTypesNotInterchangeable ==
  (authRequest.pc = "done" /\ ValidlySigned(authRequest.request)) =>
    /\ ( /\ authRequest.route = "protected"
         /\ authRequest.request.token.type = "refresh" )
       => /\ authRequest.result.status = 401
          /\ authRequest.result.error = "Invalid token type"
          /\ ~authRequest.result.nextCalled
          /\ authRequest.result.user = NoUser
    /\ ( /\ authRequest.route = "refresh"
         /\ authRequest.request.token.type = "access" )
       => /\ ~verifyRefreshToken(authRequest.request).ok
          /\ authRequest.result.status = 401
          /\ authRequest.result.tokens = NoTokens

\* a refresh token of an existing user, presented to a protected route
C23_Witness ==
  /\ authRequest.pc = "done"
  /\ authRequest.route = "protected"
  /\ ValidlySigned(authRequest.request)
  /\ authRequest.request.token.type = "refresh"
  /\ authRequest.request.token.id \in ExistingUsers
  /\ authRequest.result.status = 401

\* ------------------------------------------- Project: documentation.history
\* Project.ts:384-385, the number of entries kept
HistoryLimit == 100
\* addChangeHistory calls explored after Init
MaxAdditions == 7

\* the addChangeHistory calls made on the project before the behaviours
\* explored here begin: none (a new project), or 98
PriorAdditions == {0, HistoryLimit - 2}

\* the sections written through updateDocumentation, by title (one type)
SectionTitles == {"API", "Setup"}

\* array.slice(-n)
sliceLast(array, n) ==
  IF Len(array) <= n THEN array ELSE SubSeq(array, Len(array) - n + 1, Len(array))

\* array.slice(0, n)
sliceFirst(array, n) ==
  IF Len(array) <= n THEN array ELSE SubSeq(array, 1, n)

\* an entry of the history; its timestamp is the number of the addition
changeEntry(change, timestamp) ==
  [changeType |-> change.changeType, author |-> change.author,
   timestamp |-> timestamp]

\* addChangeHistory keeping the first 100 entries
addChangeHistoryKeepsOldest(document, change) ==
  LET pushed == Append(document.history, changeEntry(change, document.added + 1))
  IN [document EXCEPT
        !.added = @ + 1,
        !.history = IF Len(pushed) > HistoryLimit
                      THEN sliceFirst(pushed, HistoryLimit)
                      ELSE pushed]

\* projectSchema.methods.addChangeHistory (Project.ts:377-387)
addChangeHistory(document, change) ==
  LET pushed == Append(document.history, changeEntry(change, document.added + 1))
  IN [document EXCEPT
        !.added = @ + 1,
        !.history = IF Len(pushed) > HistoryLimit
                      THEN sliceLast(pushed, HistoryLimit)
                      ELSE pushed]

\* sections.findIndex(s => s.title === section.title && ...): 0 for -1
findIndex(sections, title) ==
  IF \E i \in 1..Len(sections) : sections[i] = title
    THEN CHOOSE i \in 1..Len(sections) :
           /\ sections[i] = title
           /\ \A j \in 1..(i - 1) : sections[j] # title
    ELSE 0

\* projectSchema.methods.updateDocumentation (Project.ts:354-374), up to its
\* save
updateDocumentation(document, title) ==
  LET existingIndex == findIndex(document.sections, title)
      written ==
        [document EXCEPT !.sections =
           IF existingIndex >= 1 THEN [@ EXCEPT ![existingIndex] = title]
                                 ELSE Append(@, title)]
  IN addChangeHistory(written,
                      [changeType |-> IF existingIndex >= 1 THEN "updated"
                                                            ELSE "created",
                       author |-> "system"])

\* the entries of `prior` direct calls, none of which overflowed
priorHistory(prior) ==
  [i \in 1..prior |->
     changeEntry([changeType |-> "updated", author |-> "user@example.com"], i)]

ProjectInit ==
  /\ ClientAsConstructed
  /\ sampling = NotInUse
  /\ rendering = NotInUse
  /\ analysis = NotInUse
  /\ scoring = NotInUse
  /\ questions = NotInUse
  /\ PlatformIdleBut("project")
  /\ \E prior \in PriorAdditions :
       project = [history |-> priorHistory(prior), sections |-> <<>>,
                  added |-> prior, first |-> prior, saved |-> prior]

ProjectFrame ==
  UNCHANGED <<clientVars, serviceVars, aiService, authRequest, delays,
              classification>>

\* a direct call of addChangeHistory; the document is not saved
AddChangeHistory ==
  /\ project.added < project.first + MaxAdditions
  /\ project' = addChangeHistory(project, [changeType |-> "updated",
                                           author |-> "user@example.com"])
  /\ ProjectFrame

\* updateDocumentation, with its save at the end
UpdateDocumentation ==
  /\ project.added < project.first + MaxAdditions
  /\ \E title \in SectionTitles :
       LET updated == updateDocumentation(project, title)
       IN project' = [updated EXCEPT !.saved = updated.added]
  /\ ProjectFrame

ProjectNext == AddChangeHistory \/ UpdateDocumentation

ProjectSpec == ProjectInit /\ [][ProjectNext]_vars

\* C24: after any sequence of addChangeHistory calls (direct or through
\* updateDocumentation), documentation.history holds at most 100 entries and
\* they are the most recently added ones in insertion order: after 105
\* additions the first remaining entry is the 6th added.
C24_HistoryKeepsLast100 ==
  LET history == project.history
  IN /\ Len(history) = Min(project.added, HistoryLimit)
     /\ \A i \in 1..Len(history) :
          history[i].timestamp = project.added - Len(history) + i

\* 105 additions, the last of them through updateDocumentation
C24_Witness ==
  /\ project.added = HistoryLimit + 5
  /\ Len(project.history) = HistoryLimit
  /\ project.history[1].timestamp = 6
  /\ project.history[HistoryLimit].author = "system"

\* ------------------------------------------------ the backoff of generate
\* largest configured maxRetries of the call whose delays are followed
MaxBackoffRetries == 4

\* the caller followed, and its request
BackoffCaller == "a"
BackoffRequest == [prompt |-> 5, systemMessage |-> 0]

RECURSIVE Sum(_)
Sum(s) == IF s = <<>> THEN 0 ELSE Head(s) + Sum(Tail(s))

\* a client as constructed, with maxRetries up to MaxBackoffRetries; no
\* delay requested yet
BackoffInit ==
  /\ config \in [maxRetries : 0..MaxBackoffRetries, model : {"gpt-4-turbo"},
                 retryDelay : {RetryDelay}]
  /\ ClientFresh
  /\ sampling = NotInUse
  /\ rendering = NotInUse
  /\ analysis = NotInUse
  /\ scoring = NotInUse
  /\ questions = NotInUse
  /\ PlatformIdleBut("delays")
  /\ delays = [requested |-> <<>>, startedAt |-> 0]

BackoffFrame ==
  UNCHANGED <<serviceVars, aiService, authRequest, project, classification>>

\* generate is called (client.ts:67-74): the delays of the new call are
\* followed from here
BackoffGenerate ==
  /\ started < MaxCalls
  /\ ~InProgress(calls[BackoffCaller])
  /\ LET fresh == [IdleCall EXCEPT !.kind = "generate",
                                   !.request = BackoffRequest]
         r == throughRateLimit(fresh)
     IN /\ rateLimitInfo' = r.rateLimitInfo
        /\ calls' = [calls EXCEPT ![BackoffCaller] = r.call]
        /\ windowCalls' = countCalls(fresh, r.call, TRUE)
  /\ started' = started + 1
  /\ erased' = -1
  /\ delays' = [requested |-> <<>>, startedAt |-> now]
  /\ UNCHANGED <<config, now, costTracking>>
  /\ BackoffFrame

\* the provider call fails (client.ts:77-85); the argument of delay, when
\* delay is called, is recorded
BackoffProviderFails ==
  /\ calls[BackoffCaller].pc = "calling"
  /\ \E message \in ProviderErrors :
       LET failed == catch(calls[BackoffCaller], message)
       IN /\ calls' = [calls EXCEPT ![BackoffCaller] = failed]
          /\ delays' =
               IF failed.pc = "backoff"
                 THEN [delays EXCEPT !.requested = Append(@, failed.wakeAt - now)]
                 ELSE delays
  /\ erased' = -1
  /\ UNCHANGED <<config, now, rateLimitInfo, costTracking, windowCalls, started>>
  /\ BackoffFrame

BackoffProviderCompletes == ProviderCompletes(BackoffCaller)

\* time passes until the timer of delay(ms) is due (client.ts:213-215)
BackoffTimerDue ==
  /\ calls[BackoffCaller].pc = "backoff"
  /\ now < calls[BackoffCaller].wakeAt
  /\ now' = calls[BackoffCaller].wakeAt
  /\ erased' = -1
  /\ UNCHANGED <<config, rateLimitInfo, costTracking, calls, windowCalls,
                 started, delays>>
  /\ BackoffFrame

BackoffResumes == BackoffOver(BackoffCaller)

BackoffNext ==
  \/ BackoffGenerate
  \/ BackoffProviderFails
  \/ BackoffProviderCompletes
  \/ BackoffTimerDue
  \/ BackoffResumes

BackoffSpec == BackoffInit /\ [][BackoffNext]_vars

\* C25: after the k-th attempt fails retryably with k < maxRetries, generate
\* waits exactly retryDelay * 2^(k-1) ms before attempt k+1; no wait happens
\* after a success, a non-retryable failure or the last attempt, so a call
\* whose maxRetries attempts all fail retryably has waited
\* retryDelay * (2^(maxRetries-1) - 1) in total when it raises.
C25_ExponentialBackoff ==
  LET call == calls[BackoffCaller]
      requested == delays.requested
  IN call.pc # "idle" =>
       \* the k-th wait is retryDelay * 2^(k-1)
       /\ \A k \in 1..Len(requested) :
            requested[k] = config.retryDelay * Pow2(k - 1)
       \* one wait after each attempt but the current one
       /\ call.pc = "calling" => Len(requested) = call.attempt - 1
       /\ call.pc = "backoff" =>
            /\ Len(requested) = call.attempt
            /\ call.attempt < config.maxRetries
            /\ call.lastError.retryable
       \* none after the attempt that settles the call
       /\ call.pc = "returned" => Len(requested) = call.attempt - 1
       /\ call.pc = "thrown" =>
            /\ Len(requested) = call.attempt - 1
            /\ call.attempt < config.maxRetries => ~call.lastError.retryable
            /\ (config.maxRetries >= 1 /\ call.attempt = config.maxRetries) =>
                 /\ Sum(requested) =
                      config.retryDelay * (Pow2(config.maxRetries - 1) - 1)
                 /\ now - delays.startedAt = Sum(requested)

\* four attempts, each failed retryably: waits of 1000, 2000 and 4000 ms
C25_Witness ==
  /\ config.maxRetries = 4
  /\ calls[BackoffCaller].pc = "thrown"
  /\ calls[BackoffCaller].attempt = 4
  /\ calls[BackoffCaller].lastError.code = "RATE_LIMITED"
  /\ delays.requested = <<1000, 2000, 4000>>
  /\ now - delays.startedAt = 7000

\* ------------------------------------------- the first object of a text
\* the index of the } that closes the object open at `depth` levels, scanning
\* from position i; 0 when the text ends first
RECURSIVE closingBrace(_, _, _)
closingBrace(content, i, depth) ==
  IF i > Len(content) THEN 0
  ELSE IF content[i].tok = "{" THEN closingBrace(content, i + 1, depth + 1)
  ELSE IF content[i].tok = "}"
    THEN IF depth = 1 THEN i ELSE closingBrace(content, i + 1, depth - 1)
  ELSE closingBrace(content, i + 1, depth)

\* the first top-level {...} of a text: from the first { to the } that
\* closes it
FirstTopLevelObject(content) ==
  LET opens == {i \in 1..Len(content) : content[i].tok = "{"}
      first == CHOOSE i \in opens : \A k \in opens : i <= k
      close == IF opens = {} THEN 0 ELSE closingBrace(content, first + 1, 1)
  IN IF close # 0
       THEN [found |-> TRUE, text |-> SubSeq(content, first, close)]
       ELSE [found |-> FALSE, text |-> <<>>]

ParseFailures ==
  {"Failed to parse analysis response: ", "Failed to parse tech stack response: "}

\* C26: the analysis service extracts the first top-level JSON object found
\* anywhere in the model's text and parses that object alone, whatever the
\* commentary before and after it, trailing commentary with braces or with a
\* second JSON object included.
C26_FirstObjectAloneIsParsed ==
  LET object == FirstTopLevelObject(analysis.content)
      parsed == JSONparse(object.text)
  IN ( /\ analysis.pc \in {"returned", "thrown"}
       /\ analysis.clientOutcome = "returned"
       /\ object.found
       /\ parsed.ok )
     => /\ analysis.pc = "thrown" => analysis.message[2] \notin ParseFailures
        /\ analysis.pc = "returned" =>
             analysis.result =
               IF analysis.op = "analyzeDescription"
                 THEN validateAnalysisResult(parsed.value)
                 ELSE validateTechStackRecommendations(parsed.value)

\* ------------------------------------------ the classification of failures
\* largest configured maxRetries of the client whose classifier is followed
MaxClassifyRetries == 3

\* the failures of a provider call, by what happened and by the fragments of
\* the message that tell it: a throttling, a timeout, a failure of the
\* provider with its HTTP status or its error type, an exhausted quota, a
\* rejected credential, an unavailable model, and failures of no known text
\* (the empty completion of client.ts:116-118 among them)
Failures ==
  { [kind |-> "throttling", message |-> {"rate limit"}],
    [kind |-> "timeout", message |-> {"timeout"}],
    [kind |-> "5xx", message |-> {"server_error"}],
    [kind |-> "5xx", message |-> {"500"}],
    [kind |-> "5xx", message |-> {"502"}],
    [kind |-> "5xx", message |-> {"503"}],
    [kind |-> "5xx", message |-> {"504"}],
    [kind |-> "quota", message |-> {"insufficient_quota"}],
    [kind |-> "credential", message |-> {"invalid_api_key"}],
    [kind |-> "model", message |-> {"model_not_found"}],
    [kind |-> "unrecognized", message |-> {"connection reset"}],
    [kind |-> "unrecognized", message |-> NoContentMessage] }

\* a provider call of a client fails at one of its attempts
ClassifyInit ==
  /\ config \in [maxRetries : 1..MaxClassifyRetries, model : {"gpt-4-turbo"},
                 retryDelay : {RetryDelay}]
  /\ ClientFresh
  /\ sampling = NotInUse
  /\ rendering = NotInUse
  /\ analysis = NotInUse
  /\ scoring = NotInUse
  /\ questions = NotInUse
  /\ PlatformIdleBut("classification")
  /\ \E failure \in Failures, attempt \in 1..config.maxRetries :
       classification = [pc |-> "caught", failure |-> failure,
                         attempt |-> attempt, error |-> NoError]

\* the catch block classifies the failure (client.ts:78)
Classify ==
  /\ classification.pc = "caught"
  /\ classification' =
       [classification EXCEPT
          !.pc = "classified",
          !.error = handleError(classification.failure.message,
                                classification.attempt)]
  /\ UNCHANGED <<clientVars, serviceVars, aiService, authRequest, project,
                 delays>>

ClassifyNext == Classify

ClassifySpec == ClassifyInit /\ [][ClassifyNext]_vars

\* the code and flags of the taxonomy for a failure at attempt `attempt`
Taxonomy(kind, attempt) ==
  CASE kind = "throttling" ->
         [code |-> "RATE_LIMITED", retryable |-> TRUE, costExceeded |-> FALSE]
    [] kind = "timeout" ->
         [code |-> "TIMEOUT", retryable |-> attempt < config.maxRetries,
          costExceeded |-> FALSE]
    [] kind = "5xx" ->
         [code |-> "SERVER_ERROR", retryable |-> TRUE, costExceeded |-> FALSE]
    [] kind = "quota" ->
         [code |-> "QUOTA_EXCEEDED", retryable |-> FALSE, costExceeded |-> TRUE]
    [] kind = "credential" ->
         [code |-> "INVALID_API_KEY", retryable |-> FALSE, costExceeded |-> FALSE]
    [] kind = "model" ->
         [code |-> "MODEL_NOT_FOUND", retryable |-> FALSE, costExceeded |-> FALSE]
    [] OTHER ->
         [code |-> "UNKNOWN_ERROR", retryable |-> FALSE, costExceeded |-> FALSE]

\* C27: every provider failure is classified per the taxonomy: throttling is
\* RATE_LIMITED and retryable; a timeout is TIMEOUT and retryable on every
\* attempt but the last; any provider-side 5xx-class failure is SERVER_ERROR
\* and retryable; quota exhaustion is QUOTA_EXCEEDED, non-retryable and
\* flagged costExceeded; a rejected credential and an unavailable model are
\* non-retryable; every unrecognized failure text is UNKNOWN_ERROR and
\* non-retryable.
C27_ClassifiedPerTaxonomy ==
  classification.pc = "classified" =>
    LET expected == Taxonomy(classification.failure.kind, classification.attempt)
    IN /\ classification.error.code = expected.code
       /\ classification.error.retryable = expected.retryable
       /\ classification.error.costExceeded = expected.costExceeded

\* C28: whenever the requirements give a database type, the database term of
\* the unclamped score is +10 when the candidate's database belongs to the
\* required family (SQL family, NoSQL family, or a substring match for a
\* concrete database name) and -10 when it does not; the term is 0 only when
\* no database type is given.
C28_DatabaseTermPlusMinusTen ==
  scoring.pc = "returned" =>
    LET term == databaseTypeMatching(scoring.recommendation,
                                     scoring.requirements)
        matches == matchDatabaseType(scoring.recommendation.database,
                                     scoring.requirements.databaseType)
    IN /\ scoring.requirements.databaseType = "" <=> term = 0
       /\ scoring.requirements.databaseType # "" =>
            term = IF matches THEN 10 ELSE -10

\* the entries of a mapping in the opposite insertion order
Reversed(entries) ==
  [i \in 1..Len(entries) |-> entries[Len(entries) + 1 - i]]

\* one simultaneous substitution: every placeholder of the body that names a
\* provided variable gives way to what replace puts for that variable's
\* value; nothing that was inserted is looked at again
RECURSIVE Simultaneous(_, _)
Simultaneous(text, variables) ==
  IF text = <<>>
    THEN <<>>
    ELSE (CASE Head(text) = "{{a}}" /\ Provided(variables, "a") ->
                 GetSubstitution("{{a}}", ValueOf(variables, "a"))
            [] Head(text) = "{{b}}" /\ Provided(variables, "b") ->
                 GetSubstitution("{{b}}", ValueOf(variables, "b"))
            [] OTHER -> <<Head(text)>>)
         \o Simultaneous(Tail(text), variables)

\* C29: renderPrompt behaves as one simultaneous substitution: its result
\* does not depend on the order of the entries of the mapping, and text
\* inserted as one variable's value is never itself treated as a placeholder
\* of another supplied variable.
C29_SimultaneousSubstitution ==
  rendering.pc = "returned" =>
    /\ rendering.rendered =
         renderPrompt(rendering.userPromptTemplate, Reversed(rendering.variables))
    /\ rendering.rendered =
         Simultaneous(rendering.userPromptTemplate, rendering.variables)

====
